---- MODULE Spec2Model ----
(***************************************************************************)
(* Model of the example agents' tool handlers (DevOps, data analyst) and   *)
(* of the session-scoped agent RPC surface of the Copilot SDK.             *)
(*                                                                         *)
(* Strings are sequences of one-character strings, so that trim, split,    *)
(* startsWith, includes, toUpperCase, the regular expressions and          *)
(* path.resolve are computed character by character, as the code does.     *)
(*                                                                         *)
(* The DevOps example exists twice in the sources: the runnable file       *)
(* agents/devops-agent/examples/nodejs.ts ("example") and the listing      *)
(* carried by agents/customer-support-agent/README.md ("listing").  Both   *)
(* are modelled; a call names the copy it runs.                            *)
(***************************************************************************)
EXTENDS Integers, Sequences, FiniteSets, TLC

VARIABLES
    call,       \* the last tool call: tool, copy and arguments
    result,     \* what the handler returned: kind "ok" | "error" and the reason
    proc,       \* the child process the handler started (via "none" if none)
    fileRead,   \* the path load_csv handed to readFileSync (<<>> if none)
    sessions,   \* CLI side: session id -> [customAgents, current]
    reply,      \* the last RPC request and its reply, as the client saw it
    hist,       \* per session, the caller's record: the configuration it passed
                \* to createSession and the select/deselect calls it has made
    rpc,        \* client side: the SessionRpc objects built so far and the last
                \* generated-method call with the requests it put on the wire
    slack,      \* the Slack bot: its sessions dict, the running app_mention
                \* handlers and the sessions create_session has made
    http,       \* the HTTP request the handler sent with fetch, if any
    loop,       \* the interactive example loop: where it is, the lines entered,
                \* the prompts sent and the state of client and readline
    support,    \* the support desk: the clock (Date.now()) and, for each
                \* create_ticket invocation so far, its priority and result
    earlier     \* the caller's record of one earlier tool call: the call and
                \* whether the tool's validation rejected it

vars ==
    <<call, result, proc, fileRead, sessions, reply, hist, rpc, slack, http, loop, support,
      earlier>>

(***************************************************************************)
(* Bounds of the model                                                     *)
(***************************************************************************)
MaxCmdPieces == 3
MaxNameLen == 2
MaxDurLen == 4
MaxPathPieces == 4
MaxSqlPieces == 3
MaxSessions == 2

(***************************************************************************)
(* Strings                                                                 *)
(***************************************************************************)
RECURSIVE Concat(_)
Concat(ss) == IF ss = <<>> THEN <<>> ELSE Head(ss) \o Concat(Tail(ss))

\* All sequences over S of length at most n.
SeqsUpTo(S, n) == UNION {[1..k -> S] : k \in 0..n}

\* JavaScript StrWhiteSpaceChar / \s, restricted to the characters used here.
IsSpace(c) == c \in {" ", "\t", "\n"}

\* String.prototype.startsWith
StartsWith(s, p) == Len(s) >= Len(p) /\ SubSeq(s, 1, Len(p)) = p

\* String.prototype.endsWith
EndsWith(s, p) == Len(s) >= Len(p) /\ SubSeq(s, Len(s) - Len(p) + 1, Len(s)) = p

\* String.prototype.includes
Includes(s, p) == \E i \in 1..(Len(s) - Len(p) + 1) : SubSeq(s, i, i + Len(p) - 1) = p

RECURSIVE TrimStart(_)
TrimStart(s) == IF s # <<>> /\ IsSpace(Head(s)) THEN TrimStart(Tail(s)) ELSE s

RECURSIVE TrimEnd(_)
TrimEnd(s) ==
    IF s # <<>> /\ IsSpace(s[Len(s)]) THEN TrimEnd(SubSeq(s, 1, Len(s) - 1)) ELSE s

\* String.prototype.trim
Trim(s) == TrimEnd(TrimStart(s))

\* s.split(/\s+/).filter(Boolean): the maximal runs of non-space characters.
RECURSIVE SplitWs(_, _)
SplitWs(s, cur) ==
    IF s = <<>> THEN (IF cur = <<>> THEN <<>> ELSE <<cur>>)
    ELSE IF IsSpace(Head(s))
         THEN (IF cur = <<>> THEN <<>> ELSE <<cur>>) \o SplitWs(Tail(s), <<>>)
         ELSE SplitWs(Tail(s), Append(cur, Head(s)))

SplitArgs(s) == SplitWs(Trim(s), <<>>)

\* An optional argument is the empty set (undefined) or a singleton.
OrDefault(opt, d) == IF opt = {} THEN d ELSE CHOOSE v \in opt : TRUE

(***************************************************************************)
(* DevOps agent: run_kubectl and fetch_logs                                *)
(***************************************************************************)
w_get == <<"g", "e", "t">>
w_describe == <<"d", "e", "s", "c", "r", "i", "b", "e">>
w_logs == <<"l", "o", "g", "s">>
w_top == <<"t", "o", "p">>
w_rollout == <<"r", "o", "l", "l", "o", "u", "t">>
w_status == <<"s", "t", "a", "t", "u", "s">>
w_restart == <<"r", "e", "s", "t", "a", "r", "t">>
w_delete == <<"d", "e", "l", "e", "t", "e">>
w_kubectl == <<"k", "u", "b", "e", "c", "t", "l">>
w_production == <<"p", "r", "o", "d", "u", "c", "t", "i", "o", "n">>

\* const ALLOWED_KUBECTL_PREFIXES / ALLOWED_KUBECTL_SUBCOMMANDS
ALLOWED_KUBECTL_PREFIXES == {w_get, w_describe, w_logs, w_top, w_rollout}

NoProc == [via |-> "none"]
\* promisify(exec)(cmdline): /bin/sh -c cmdline
ExecShell(cmdline) == [via |-> "shell", cmdline |-> cmdline]
\* promisify(execFile)(file, args): no shell, args passed as an array
ExecFile(file, args) == [via |-> "execFile", file |-> file, args |-> args]

Err(why) == [kind |-> "error", why |-> why]
Ok(what) == [kind |-> "ok", why |-> what]
\* try { await exec...; return {...} } catch (err) { return { error: String(err) } }
TryExec(execOk, what) == IF execOk THEN Ok(what) ELSE Err("exec_failed")

\* runKubectl handler of agents/devops-agent/examples/nodejs.ts
runKubectl(command, execOk) ==
    LET trimmed == Trim(command)
        isAllowed == \E prefix \in ALLOWED_KUBECTL_PREFIXES : StartsWith(trimmed, prefix)
    IN  IF ~isAllowed
        THEN [result |-> Err("not_allowed"), proc |-> NoProc]
        ELSE [result |-> TryExec(execOk, "output"),
              proc |-> ExecShell(w_kubectl \o <<" ">> \o trimmed)]

\* runKubectl handler of the listing in agents/customer-support-agent/README.md
runKubectlListing(command, execOk) ==
    LET args == SplitArgs(command)
    IN  IF Len(args) = 0
        THEN [result |-> Err("no_command"), proc |-> NoProc]
        ELSE LET subcommand == args[1]
                 isAllowed == \E prefix \in ALLOWED_KUBECTL_PREFIXES : subcommand = prefix
             IN  IF ~isAllowed
                 THEN [result |-> Err("not_allowed"), proc |-> NoProc]
                 ELSE [result |-> TryExec(execOk, "output"),
                       proc |-> ExecFile(w_kubectl, args)]

LowerLetters ==
    <<"a", "b", "c", "d", "e", "f", "g", "h", "i", "j", "k", "l", "m",
      "n", "o", "p", "q", "r", "s", "t", "u", "v", "w", "x", "y", "z">>
UpperLetters ==
    <<"A", "B", "C", "D", "E", "F", "G", "H", "I", "J", "K", "L", "M",
      "N", "O", "P", "Q", "R", "S", "T", "U", "V", "W", "X", "Y", "Z">>
IsDigit(c) == c \in {"0", "1", "2", "3", "4", "5", "6", "7", "8", "9"}
IsLowerAlnum(c) == IsDigit(c) \/ \E i \in 1..26 : LowerLetters[i] = c

\* Mutant of K8S_NAME_PATTERN: as with the g flag, where a test that follows a
\* successful one starts at lastIndex and fails: after an accepted
\* fetch_logs or list_recent_deployments the pattern matches nothing.
K8S_NAME_PATTERN_Global(s) ==
    /\ ~(earlier.call.tool \in {"fetch_logs", "list_recent_deployments"} /\ ~earlier.rejected)
    /\ Len(s) >= 1
    /\ IsLowerAlnum(s[1])
    /\ IsLowerAlnum(s[Len(s)])
    /\ \A i \in 1..Len(s) : IsLowerAlnum(s[i]) \/ s[i] = "-"

\* const K8S_NAME_PATTERN = /^[a-z0-9]([a-z0-9-]*[a-z0-9])?$/
K8S_NAME_PATTERN(s) ==
    /\ Len(s) >= 1
    /\ IsLowerAlnum(s[1])
    /\ IsLowerAlnum(s[Len(s)])
    /\ \A i \in 1..Len(s) : IsLowerAlnum(s[i]) \/ s[i] = "-"

\* const DURATION_PATTERN = /^[0-9]+(h|m|s)$/
DURATION_PATTERN(s) ==
    /\ Len(s) >= 2
    /\ s[Len(s)] \in {"h", "m", "s"}
    /\ \A i \in 1..(Len(s) - 1) : IsDigit(s[i])

\* Number -> decimal string, for the integers the model passes as `lines`.
RECURSIVE NatStr(_)
NatStr(n) ==
    LET d == <<"0", "1", "2", "3", "4", "5", "6", "7", "8", "9">>[(n % 10) + 1]
    IN  IF n < 10 THEN <<d>> ELSE Append(NatStr(n \div 10), d)

NumStr(n) == IF n < 0 THEN <<"-">> \o NatStr(-n) ELSE NatStr(n)

\* JavaScript values a tool argument declared `type: "number"` can hold at run
\* time: a number num/den (den > 0), NaN, or a string.
JsNumber(num, den) == [t |-> "number", num |-> num, den |-> den]
JsInt(n) == JsNumber(n, 1)
NaN == [t |-> "NaN"]
JsString(s) == [t |-> "string", s |-> s]

DigitValue(c) == CHOOSE d \in 0..9 : NatStr(d) = <<c>>

RECURSIVE ParseDigits(_)
ParseDigits(s) ==
    IF s = <<>> THEN 0 ELSE 10 * ParseDigits(SubSeq(s, 1, Len(s) - 1)) + DigitValue(s[Len(s)])

\* Number(v): a number is itself; a string of decimal digits (with an optional
\* sign) is its value, the empty string is 0, any other text is NaN.
Number(v) ==
    IF v.t # "string" THEN v
    ELSE LET text == Trim(v.s)
             digits == IF text # <<>> /\ Head(text) \in {"-", "+"} THEN Tail(text) ELSE text
         IN  IF text = <<>> THEN JsInt(0)
             ELSE IF digits # <<>> /\ \A i \in 1..Len(digits) : IsDigit(digits[i])
             THEN JsInt(IF Head(text) = "-" THEN -ParseDigits(digits) ELSE ParseDigits(digits))
             ELSE NaN

\* Math.floor, Math.min and Math.max: NaN in, NaN out
MathFloor(v) == IF v.t = "NaN" THEN NaN ELSE JsInt(v.num \div v.den)
MathMin(a, b) ==
    IF a.t = "NaN" \/ b.t = "NaN" THEN NaN
    ELSE IF a.num * b.den <= b.num * a.den THEN a ELSE b
MathMax(a, b) ==
    IF a.t = "NaN" \/ b.t = "NaN" THEN NaN
    ELSE IF a.num * b.den >= b.num * a.den THEN a ELSE b

\* `${v}` in a template literal: a string is itself, NaN is "NaN", an integer
\* its decimal digits, a half-integer its digits followed by ".5".
JsToString(v) ==
    IF v.t = "string" THEN v.s
    ELSE IF v.t = "NaN" THEN <<"N", "a", "N">>
    ELSE IF v.num % v.den = 0 THEN NumStr(v.num \div v.den)
    ELSE LET twice == (2 * v.num) \div v.den
             abs == IF twice < 0 THEN -twice ELSE twice
         IN  (IF twice < 0 THEN <<"-">> ELSE <<>>) \o NatStr(abs \div 2) \o <<".", "5">>

\* fetchLogs handler of agents/devops-agent/examples/nodejs.ts
fetchLogs(service, namespaceArg, linesArg, sinceArg, execOk) ==
    LET namespace == OrDefault(namespaceArg, w_production)
        lines == OrDefault(linesArg, JsInt(100))
        since == OrDefault(sinceArg, <<"1", "h">>)
    IN  [result |-> TryExec(execOk, "logs"),
         proc |-> ExecShell(Concat(<<w_kubectl, <<" ">>, w_logs, <<" ", "-", "l", " ", "a", "p", "p", "=">>,
                                     service, <<" ", "-", "n", " ">>, namespace,
                                     <<" ", "-", "-", "t", "a", "i", "l", "=">>, JsToString(lines),
                                     <<" ", "-", "-", "s", "i", "n", "c", "e", "=">>, since>>))]

\* fetchLogs handler of the listing in agents/customer-support-agent/README.md
fetchLogsListing(service, namespaceArg, linesArg, sinceArg, execOk) ==
    LET namespace == OrDefault(namespaceArg, w_production)
        lines == OrDefault(linesArg, JsInt(100))
        since == OrDefault(sinceArg, <<"1", "h">>)
        safeLines == MathMax(JsInt(1), MathMin(JsInt(1000), MathFloor(Number(lines))))
    IN  IF ~K8S_NAME_PATTERN(service)
        THEN [result |-> Err("invalid_service"), proc |-> NoProc]
        ELSE IF ~K8S_NAME_PATTERN(namespace)
        THEN [result |-> Err("invalid_namespace"), proc |-> NoProc]
        ELSE IF ~DURATION_PATTERN(since)
        THEN [result |-> Err("invalid_duration"), proc |-> NoProc]
        ELSE [result |-> TryExec(execOk, "logs"),
              proc |-> ExecFile(w_kubectl,
                          <<w_logs, <<"-", "l">>, <<"a", "p", "p", "=">> \o service,
                            <<"-", "n">>, namespace,
                            <<"-", "-", "t", "a", "i", "l", "=">> \o JsToString(safeLines),
                            <<"-", "-", "s", "i", "n", "c", "e", "=">> \o since>>)]

(***************************************************************************)
(* Data analyst agent: run_sql_query and load_csv                          *)
(***************************************************************************)
\* String.prototype.toUpperCase / toLowerCase on ASCII text
UpperChar(c) ==
    IF \E i \in 1..26 : LowerLetters[i] = c
    THEN UpperLetters[CHOOSE i \in 1..26 : LowerLetters[i] = c] ELSE c
LowerChar(c) ==
    IF \E i \in 1..26 : UpperLetters[i] = c
    THEN LowerLetters[CHOOSE i \in 1..26 : UpperLetters[i] = c] ELSE c
ToUpperCase(s) == [i \in 1..Len(s) |-> UpperChar(s[i])]
ToLowerCase(s) == [i \in 1..Len(s) |-> LowerChar(s[i])]

w_SELECT == <<"S", "E", "L", "E", "C", "T">>
w_WITH == <<"W", "I", "T", "H">>
w_select == <<"s", "e", "l", "e", "c", "t">>
w_With == <<"W", "i", "t", "h">>
w_drop == <<"d", "r", "o", "p">>
w_dotcsv == <<".", "c", "s", "v">>
w_dotCSV == <<".", "C", "S", "V">>

\* The simulated response returned when no database is configured; revenue is
\* written as the decimal text of the number.
SimulatedResponse ==
    [kind |-> "ok", why |-> "simulated_rows",
     columns |-> <<"date", "product", "revenue", "orders">>,
     rows |-> << <<"2024-01-01", "Widget Pro", "12500.00", 245>>,
                 <<"2024-01-02", "Widget Lite", "8200.50", 167>> >>,
     row_count |-> 2,
     note |-> "Simulated data"]

\* Mutant of runSqlQuery: the semicolon test is missing.
runSqlQuery_NoSemicolonTest(sql, limitArg, hasDbUrl) ==
    LET normalized == ToUpperCase(Trim(sql))
    IN  IF ~StartsWith(normalized, w_SELECT) /\ ~StartsWith(normalized, w_WITH)
        THEN Err("only_select")
        ELSE IF ~hasDbUrl
        THEN SimulatedResponse
        ELSE Err("no_db_client")

\* runSqlQuery handler; hasDbUrl: whether process.env.DATABASE_URL is set
runSqlQuery(sql, limitArg, hasDbUrl) ==
    LET normalized == ToUpperCase(Trim(sql))
    IN  IF ~StartsWith(normalized, w_SELECT) /\ ~StartsWith(normalized, w_WITH)
        THEN Err("only_select")
        ELSE IF Includes(sql, <<";">>)
        THEN Err("semicolon")
        ELSE IF ~hasDbUrl
        THEN SimulatedResponse
        ELSE Err("no_db_client")

\* path.isAbsolute (POSIX)
IsAbsolute(p) == Len(p) > 0 /\ p[1] = "/"

\* The pieces of s between the occurrences of the separator character.
RECURSIVE SplitOn(_, _, _)
SplitOn(s, sep, cur) ==
    IF s = <<>> THEN <<cur>>
    ELSE IF Head(s) = sep THEN <<cur>> \o SplitOn(Tail(s), sep, <<>>)
    ELSE SplitOn(Tail(s), sep, Append(cur, Head(s)))

\* normalizeString of node's path module, on an absolute path: empty and "."
\* segments are dropped, ".." removes the segment before it (none at the root).
RECURSIVE NormalizeSegs(_, _)
NormalizeSegs(segs, acc) ==
    IF segs = <<>> THEN acc
    ELSE LET seg == Head(segs)
         IN  IF seg = <<>> \/ seg = <<".">> THEN NormalizeSegs(Tail(segs), acc)
             ELSE IF seg = <<".", ".">>
             THEN NormalizeSegs(Tail(segs),
                                IF acc = <<>> THEN acc ELSE SubSeq(acc, 1, Len(acc) - 1))
             ELSE NormalizeSegs(Tail(segs), Append(acc, seg))

RECURSIVE JoinSegs(_)
JoinSegs(segs) == IF segs = <<>> THEN <<>> ELSE <<"/">> \o Head(segs) \o JoinSegs(Tail(segs))

\* path.resolve(...paths) (POSIX): from the right, prepend each non-empty path
\* until one is absolute (the working directory last), then normalize.
RECURSIVE ResolveRaw(_, _, _)
ResolveRaw(paths, cwd, acc) ==
    IF paths = <<>> THEN cwd \o <<"/">> \o acc
    ELSE LET p == paths[Len(paths)]
             rest == SubSeq(paths, 1, Len(paths) - 1)
         IN  IF p = <<>> THEN ResolveRaw(rest, cwd, acc)
             ELSE IF IsAbsolute(p) THEN p \o <<"/">> \o acc
             ELSE ResolveRaw(rest, cwd, p \o <<"/">> \o acc)

PathResolve(paths, cwd) ==
    LET segs == NormalizeSegs(SplitOn(ResolveRaw(paths, cwd, <<>>), "/", <<>>), <<>>)
    IN  IF segs = <<>> THEN <<"/">> ELSE JoinSegs(segs)

\* The containment test of the loadCsv handler (path.sep is "/").
StaysInDataDir(resolvedPath, resolvedDataDir) ==
    StartsWith(resolvedPath, resolvedDataDir \o <<"/">>) \/ resolvedPath = resolvedDataDir

\* Mutant of IsInvalidPath: the test for ".." is missing.
IsInvalidPath_AbsoluteOnly(file_path) == IsAbsolute(file_path)

\* The first test of the loadCsv handler.
IsInvalidPath(file_path) == IsAbsolute(file_path) \/ Includes(file_path, <<".", ".">>)

\* String.prototype.split on a one-character separator
RECURSIVE Split(_, _)
Split(s, sep) ==
    IF \A i \in 1..Len(s) : s[i] # sep THEN <<s>>
    ELSE LET i == CHOOSE k \in 1..Len(s) : s[k] = sep /\ \A j \in 1..(k - 1) : s[j] # sep
         IN  <<SubSeq(s, 1, i - 1)>> \o Split(SubSeq(s, i + 1, Len(s)), sep)

\* Array.prototype.slice(start, end) for integer bounds: a negative bound
\* counts from the end of the array, both are clamped to 0..length.
Slice(a, start, end) ==
    LET n == Len(a)
        from == IF start < 0 THEN (IF n + start < 0 THEN 0 ELSE n + start)
                ELSE (IF start > n THEN n ELSE start)
        to == IF end < 0 THEN (IF n + end < 0 THEN 0 ELSE n + end)
              ELSE (IF end > n THEN n ELSE end)
    IN  SubSeq(a, from + 1, to)

\* Object.fromEntries: the set of [key, value] pairs, a later pair replacing
\* an earlier one with the same key.
FromEntries(entries) ==
    {entries[i] : i \in {k \in 1..Len(entries) :
                            \A j \in (k + 1)..Len(entries) : entries[j][1] # entries[k][1]}}

\* The try block of the loadCsv handler, on the content readFileSync returned.
ParseCsv(content, rows) ==
    LET split == Split(content, "\n")
        lines == SelectSeq(split, LAMBDA l : l # <<>>)
        headers == IF lines # <<>> THEN Split(lines[1], ",") ELSE <<>>
        Row(line) ==
            LET values == Split(line, ",")
            IN  FromEntries([i \in 1..Len(headers) |->
                    <<Trim(headers[i]),
                      IF i <= Len(values) THEN {Trim(values[i])} ELSE {}>>])
        chosen == Slice(lines, 1, rows + 1)
    IN  [kind |-> "ok", why |-> "csv", columns |-> headers,
         preview |-> [i \in 1..Len(chosen) |-> Row(chosen[i])],
         total_rows |-> Len(lines) - 1]

\* loadCsv handler; dataDirEnv: process.env.DATA_DIR (optional), cwd: process.cwd(),
\* file: the content readFileSync returns ({} when it throws).
loadCsv(file_path, rowsArg, dataDirEnv, cwd, file) ==
    LET rows == OrDefault(rowsArg, 50)
    IN  IF IsInvalidPath(file_path)
        THEN [result |-> Err("invalid_path"), fileRead |-> <<>>]
        ELSE IF ~EndsWith(ToLowerCase(file_path), w_dotcsv)
        THEN [result |-> Err("not_csv"), fileRead |-> <<>>]
        ELSE LET dataDir == OrDefault(dataDirEnv, cwd)
                 resolvedDataDir == PathResolve(<<dataDir>>, cwd)
                 resolvedPath == PathResolve(<<resolvedDataDir, file_path>>, cwd)
             IN  IF ~StaysInDataDir(resolvedPath, resolvedDataDir)
                 THEN [result |-> Err("outside_data_dir"), fileRead |-> <<>>]
                 ELSE [result |-> IF file # {} THEN ParseCsv(CHOOSE c \in file : TRUE, rows)
                                  ELSE Err("read_failed"),
                       fileRead |-> resolvedPath]

Copies == {"example", "listing"}

\* Inputs of the model: commands built from a few words, names and durations
\* over a few characters.
CmdPieces == {<<" ">>, <<";">>, <<"x">>, w_get, w_rollout, w_status, w_restart, w_delete}
CommandInputs == {Concat(ps) : ps \in SeqsUpTo(CmdPieces, MaxCmdPieces)}
NameChars == {"a", "-", ";"}
NameInputs == SeqsUpTo(NameChars, MaxNameLen)
DurChars == {"2", "h", "d"}
DurInputs == SeqsUpTo(DurChars, MaxDurLen)
\* lines: zero, a negative, a fraction, one in range, a huge one, NaN, numeric
\* text and non-numeric text
LinesInputs ==
    {JsInt(0), JsInt(-5), JsNumber(5, 2), JsInt(50), JsInt(2000), NaN,
     JsString(<<"7">>), JsString(<<"a">>)}
Opt(S) == {{}} \cup {{v} : v \in S}

SqlPieces == {<<" ">>, <<";">>, <<"x">>, w_SELECT, w_select, w_With, w_drop}
SqlInputs == {Concat(ps) : ps \in SeqsUpTo(SqlPieces, MaxSqlPieces)}
PathPieces == {<<"a">>, <<"/">>, <<".">>, <<".", ".", "/">>, w_dotcsv, w_dotCSV}
PathInputs == {Concat(ps) : ps \in SeqsUpTo(PathPieces, MaxPathPieces)}
DataDirInputs ==
    Opt({<<>>, <<"/">>, <<"/", "d">>, <<"d">>, <<"/", "d", "/">>, <<"/", "d", "/", "a">>})
CwdInputs == {<<"/">>, <<"/", "w">>}

NoCall == [tool |-> "none"]
NoEarlier == [call |-> NoCall, rejected |-> FALSE]

\* One run_kubectl call with its command drawn from the given set.
RunKubectlFrom(commands) ==
    /\ call = NoCall
    /\ \E copy \in Copies, command \in commands, execOk \in BOOLEAN :
        LET r == IF copy = "example" THEN runKubectl(command, execOk)
                 ELSE runKubectlListing(command, execOk)
        IN  /\ call' = [tool |-> "run_kubectl", copy |-> copy, command |-> command]
            /\ result' = r.result
            /\ proc' = r.proc
            /\ UNCHANGED <<earlier, fileRead, sessions, reply, hist, rpc, slack, http, loop, support>>

RunKubectl == RunKubectlFrom(CommandInputs)

\* One fetch_logs call with its arguments drawn from the given sets.
FetchLogsFrom(names, linesInputs, durations) ==
    /\ call = NoCall
    /\ \E copy \in Copies, service \in names, namespace \in Opt(names),
       lines \in Opt(linesInputs), since \in Opt(durations), execOk \in BOOLEAN :
        LET r == IF copy = "example" THEN fetchLogs(service, namespace, lines, since, execOk)
                 ELSE fetchLogsListing(service, namespace, lines, since, execOk)
        IN  /\ call' = [tool |-> "fetch_logs", copy |-> copy, service |-> service,
                        namespace |-> namespace, lines |-> lines, since |-> since]
            /\ result' = r.result
            /\ proc' = r.proc
            /\ UNCHANGED <<earlier, fileRead, sessions, reply, hist, rpc, slack, http, loop, support>>

FetchLogs == FetchLogsFrom(NameInputs, LinesInputs, DurInputs)

\* One run_sql_query call with its query drawn from the given set.
RunSqlQueryFrom(queries) ==
    /\ call = NoCall
    /\ \E sql \in queries, limit \in Opt({1}), hasDbUrl \in BOOLEAN :
        /\ call' = [tool |-> "run_sql_query", sql |-> sql, limit |-> limit,
                    hasDbUrl |-> hasDbUrl]
        /\ result' = runSqlQuery(sql, limit, hasDbUrl)
        /\ UNCHANGED <<earlier, proc, fileRead, sessions, reply, hist, rpc, slack, http, loop, support>>

RunSqlQuery == RunSqlQueryFrom(SqlInputs)

\* CSV files: empty, a header only, one, two and three data rows (with blank
\* lines and a short row); rows: absent, negative, zero and positive.
FileInputs ==
    Opt({<<>>, <<"h">>, <<"h", "\n", "1">>, <<"h", ",", "g", "\n", "1", "\n", "\n", "2", ",", "3", "\n">>,
         <<"h", "\n", "1", "\n", "2", "\n", "3">>})
RowsInputs == Opt({-2, -1, 0, 1, 2})

\* One load_csv call with its arguments and environment drawn from the given sets.
LoadCsvFrom(paths, rowsInputs, files) ==
    /\ call = NoCall
    /\ \E file_path \in paths, rows \in rowsInputs, dataDirEnv \in DataDirInputs,
          cwd \in CwdInputs, file \in files :
        LET r == loadCsv(file_path, rows, dataDirEnv, cwd, file)
        IN  /\ call' = [tool |-> "load_csv", file_path |-> file_path, rows |-> rows,
                        dataDirEnv |-> dataDirEnv, cwd |-> cwd, file |-> file]
            /\ result' = r.result
            /\ fileRead' = r.fileRead
            /\ UNCHANGED <<earlier, proc, sessions, reply, hist, rpc, slack, http, loop, support>>

\* load_csv over many paths, on one small file.
LoadCsv == LoadCsvFrom(PathInputs, {{}}, Opt({<<"h", "\n", "1">>}))

\* load_csv over many files and values of rows, on a few paths.
CsvPathInputs == {<<"a">> \o w_dotcsv, <<"a", "/", "a">> \o w_dotCSV, <<"a">>}
LoadCsvPreview == LoadCsvFrom(CsvPathInputs, RowsInputs, FileInputs)

NoReply == [method |-> "none"]
NoResult == [kind |-> "none", why |-> "none"]

\* No tool call is in progress: the previous result, if any, has been handed
\* back to the session.
NoHttp == [method |-> "none"]

ToolsIdle ==
    /\ call = NoCall
    /\ result = NoResult
    /\ proc = NoProc
    /\ fileRead = <<>>
    /\ http = NoHttp

\* The handler's promise resolves: the SDK sends the result to the CLI and the
\* tool is ready for the next invocation.
ReturnResult ==
    /\ call # NoCall
    /\ call' = NoCall
    /\ result' = NoResult
    /\ proc' = NoProc
    /\ fileRead' = <<>>
    /\ http' = NoHttp
    /\ UNCHANGED <<earlier, sessions, reply, hist, rpc, slack, loop, support>>

\* No generated RPC method has been called and no SessionRpc object exists.
NoRpc == [objs |-> <<>>, last |-> [stub |-> "none"]]

\* sessions: dict[str, Session] = {} and no handler running
NoSlack == [sessions |-> {}, tasks |-> <<>>, created |-> <<>>]

\* prompt() has been called once: rl.question is waiting for the first line.
NoLoop == [pc |-> "question", lines |-> <<>>, prompts |-> <<>>, inFlight |-> 0,
           stopCalled |-> FALSE, stopped |-> FALSE, rlClosed |-> FALSE]

\* No create_ticket invocation yet
NoSupport == [clock |-> 1, returned |-> <<>>]

InitIdle ==
    /\ ToolsIdle
    /\ sessions = <<>>
    /\ reply = NoReply
    /\ hist = <<>>
    /\ rpc = NoRpc
    /\ slack = NoSlack
    /\ loop = NoLoop
    /\ support = NoSupport
    /\ earlier = NoEarlier

(***************************************************************************)
(* DevOps agent: list_recent_deployments.  items is data.items of the JSON *)
(* kubectl prints; a creationTimestamp is a whole number of hours.         *)
(***************************************************************************)
MaxItems == 2

w_deployments == <<"d", "e", "p", "l", "o", "y", "m", "e", "n", "t", "s">>

\* data.items.map((d) => ({ name, image, timestamp, ready }))
MapDeployments(items) ==
    [i \in 1..Len(items) |->
        [name |-> items[i].name,
         image |-> OrDefault(items[i].image, "unknown"),
         timestamp |-> items[i].creationTimestamp,
         ready |-> <<OrDefault(items[i].readyReplicas, 0), "/",
                     OrDefault(items[i].replicas, 0)>>]]

Deployments(execOk, items) ==
    IF execOk
    THEN [kind |-> "ok", why |-> "deployments", deployments |-> MapDeployments(items)]
    ELSE Err("exec_failed")

\* listRecentDeployments handler of agents/devops-agent/examples/nodejs.ts
listRecentDeployments(namespaceArg, execOk, items) ==
    LET namespace == OrDefault(namespaceArg, w_production)
    IN  [result |-> Deployments(execOk, items),
         proc |-> ExecShell(Concat(<<w_kubectl, <<" ">>, w_get, <<" ">>, w_deployments,
                                     <<" ", "-", "n", " ">>, namespace,
                                     <<" ", "-", "o", " ", "j", "s", "o", "n">>>>))]

\* listRecentDeployments handler of the listing in
\* agents/customer-support-agent/README.md
listRecentDeploymentsListing(namespaceArg, execOk, items) ==
    LET namespace == OrDefault(namespaceArg, w_production)
    IN  IF ~K8S_NAME_PATTERN(namespace)
        THEN [result |-> Err("invalid_namespace"), proc |-> NoProc]
        ELSE [result |-> Deployments(execOk, items),
              proc |-> ExecFile(w_kubectl, <<w_get, w_deployments, <<"-", "n">>, namespace,
                                             <<"-", "o">>, <<"j", "s", "o", "n">>>>)]

\* The hour of the call, and the deployments of the cluster: one created an
\* hour before the call, one created a hundred hours before it.
NowHour == 1000
ItemValues ==
    {[name |-> "api", image |-> {"api:2"}, creationTimestamp |-> NowHour - 1,
      readyReplicas |-> {1}, replicas |-> {1}],
     [name |-> "db", image |-> {}, creationTimestamp |-> NowHour - 100,
      readyReplicas |-> {}, replicas |-> {1}]}
ItemInputs == SeqsUpTo(ItemValues, MaxItems)
\* hours: documented in agent.md; the schema of neither copy declares it and
\* the handlers do not read it
HoursInputs == Opt({2})
NamespaceInputs == Opt({<<"a">>, <<";">>})

\* One list_recent_deployments call against a cluster drawn from the given set.
ListRecentDeploymentsFrom(clusters) ==
    /\ call = NoCall
    /\ \E copy \in Copies, namespace \in NamespaceInputs, hours \in HoursInputs,
          execOk \in BOOLEAN, items \in clusters :
        LET r == IF copy = "example" THEN listRecentDeployments(namespace, execOk, items)
                 ELSE listRecentDeploymentsListing(namespace, execOk, items)
        IN  /\ call' = [tool |-> "list_recent_deployments", copy |-> copy,
                        namespace |-> namespace, hours |-> hours, now |-> NowHour]
            /\ result' = r.result
            /\ proc' = r.proc
            /\ UNCHANGED <<earlier, fileRead, sessions, reply, hist, rpc, slack, http, loop, support>>

ListRecentDeployments == ListRecentDeploymentsFrom(ItemInputs)

NextDevOps == RunKubectl \/ FetchLogs \/ ListRecentDeployments \/ ReturnResult

SpecDevOps == InitIdle /\ [][NextDevOps]_vars

(***************************************************************************)
(* Session-scoped agent RPC: the generated client (AgentApi) and the       *)
(* Copilot CLI that answers it.  The CLI is an external process; its       *)
(* handlers are modelled from the specification and the end-to-end tests.  *)
(***************************************************************************)
TestAgent ==
    [name |-> "test-agent", displayName |-> "Test Agent",
     description |-> "A test agent", prompt |-> "You are a test agent."]
AnotherAgent ==
    [name |-> "another-agent", displayName |-> "Another Agent",
     description |-> "Another test agent", prompt |-> "You are another agent."]

\* The customAgents configurations sessions are created with.
CustomAgentsInputs ==
    {<<>>, <<TestAgent>>, <<TestAgent, AnotherAgent>>, <<AnotherAgent, TestAgent>>}

\* class Agent: name, displayName, description
AgentDto(cfg) ==
    [name |-> cfg.name, displayName |-> cfg.displayName, description |-> cfg.description]

\* AgentApi.ListAsync: new SessionAgentListRequest { SessionId = _sessionId }
ListRequest(sessionId) == [method |-> "session.agent.list", sessionId |-> sessionId]
\* AgentApi.GetCurrentAsync
GetCurrentRequest(sessionId) ==
    [method |-> "session.agent.getCurrent", sessionId |-> sessionId]
\* AgentApi.SelectAsync: new SessionAgentSelectRequest { SessionId = _sessionId, Name = name }
SelectRequest(sessionId, name) ==
    [method |-> "session.agent.select", sessionId |-> sessionId, name |-> name]
\* AgentApi.DeselectAsync
DeselectRequest(sessionId) ==
    [method |-> "session.agent.deselect", sessionId |-> sessionId]

AgentNames(customAgents) == {customAgents[i].name : i \in 1..Len(customAgents)}
AgentNamed(customAgents, name) ==
    customAgents[CHOOSE i \in 1..Len(customAgents) : customAgents[i].name = name]

\* Mutant of NewSession: the first custom agent starts out selected.
NewSession_FirstSelected(customAgents) ==
    [customAgents |-> customAgents,
     current |-> IF customAgents = <<>> THEN {} ELSE {customAgents[1].name}]

\* CLI: the state of a session just created; no agent is selected.
NewSession(customAgents) == [customAgents |-> customAgents, current |-> {}]

\* Mutant of HandleList: the agents are listed last-configured first.
HandleList_Reversed(s) ==
    [agents |-> [i \in 1..Len(s.customAgents) |->
                    AgentDto(s.customAgents[Len(s.customAgents) + 1 - i])]]

\* CLI: session.agent.list
HandleList(s) ==
    [agents |-> [i \in 1..Len(s.customAgents) |-> AgentDto(s.customAgents[i])]]

\* CLI: session.agent.getCurrent; agent is null ({}) when none is selected
HandleGetCurrent(s) ==
    [agent |-> {AgentDto(AgentNamed(s.customAgents, n)) : n \in s.current}]

\* CLI: session.agent.select
HandleSelect(s, name) ==
    [session |-> [s EXCEPT !.current = {name}],
     result |-> [agent |-> AgentDto(AgentNamed(s.customAgents, name))]]

\* Mutant of HandleDeselect: the selection is kept.
HandleDeselect_KeepsSelection(s) == [session |-> s, result |-> [done |-> TRUE]]

\* CLI: session.agent.deselect
HandleDeselect(s) == [session |-> [s EXCEPT !.current = {}], result |-> [done |-> TRUE]]

\* Mutant of Dispatch: a select or deselect is applied to every session.
Dispatch_SelectionShared(request, ss) ==
    LET s == ss[request.sessionId]
    IN  CASE request.method = "session.agent.list" ->
                [sessions |-> ss, result |-> HandleList(s)]
          [] request.method = "session.agent.getCurrent" ->
                [sessions |-> ss, result |-> HandleGetCurrent(s)]
          [] request.method = "session.agent.select" ->
                [sessions |-> [i \in 1..Len(ss) |->
                                  IF request.name \in AgentNames(ss[i].customAgents)
                                  THEN HandleSelect(ss[i], request.name).session ELSE ss[i]],
                 result |-> HandleSelect(s, request.name).result]
          [] request.method = "session.agent.deselect" ->
                [sessions |-> [i \in 1..Len(ss) |-> HandleDeselect(ss[i]).session],
                 result |-> HandleDeselect(s).result]

\* CLI: a request is answered by the session its sessionId names.
Dispatch(request, ss) ==
    LET s == ss[request.sessionId]
    IN  CASE request.method = "session.agent.list" ->
                [sessions |-> ss, result |-> HandleList(s)]
          [] request.method = "session.agent.getCurrent" ->
                [sessions |-> ss, result |-> HandleGetCurrent(s)]
          [] request.method = "session.agent.select" ->
                LET r == HandleSelect(s, request.name)
                IN  [sessions |-> [ss EXCEPT ![request.sessionId] = r.session],
                     result |-> r.result]
          [] request.method = "session.agent.deselect" ->
                LET r == HandleDeselect(s)
                IN  [sessions |-> [ss EXCEPT ![request.sessionId] = r.session],
                     result |-> r.result]

\* CopilotClient.InvokeRpcAsync: one request, the reply handed to the caller.
InvokeRpc(request) ==
    LET out == Dispatch(request, sessions)
    IN  /\ sessions' = out.sessions
        /\ reply' = [method |-> request.method, sessionId |-> request.sessionId,
                     request |-> request, result |-> out.result]

\* client.createSession({ customAgents }): the new session's id is its index.
CreateSession ==
    /\ Len(sessions) < MaxSessions
    /\ \E customAgents \in CustomAgentsInputs :
        /\ sessions' = Append(sessions, NewSession(customAgents))
        /\ hist' = Append(hist, [customAgents |-> customAgents, last |-> "none",
                                 name |-> "", selects |-> 0])
        /\ reply' = [method |-> "session.create", sessionId |-> Len(sessions) + 1]
    /\ UNCHANGED <<earlier, call, result, proc, fileRead, rpc, slack, http, loop, support>>

\* session.rpc.agent.list()
AgentList ==
    /\ \E sid \in 1..Len(sessions) : InvokeRpc(ListRequest(sid))
    /\ UNCHANGED <<earlier, call, result, proc, fileRead, hist, rpc, slack, http, loop, support>>

\* session.rpc.agent.getCurrent()
AgentGetCurrent ==
    /\ \E sid \in 1..Len(sessions) : InvokeRpc(GetCurrentRequest(sid))
    /\ UNCHANGED <<earlier, call, result, proc, fileRead, hist, rpc, slack, http, loop, support>>

\* session.rpc.agent.select({ name }), name one of the session's custom agents
AgentSelect ==
    /\ \E sid \in 1..Len(sessions) :
        \E name \in AgentNames(hist[sid].customAgents) :
            /\ InvokeRpc(SelectRequest(sid, name))
            /\ hist' = [hist EXCEPT ![sid].last = "select", ![sid].name = name,
                                    ![sid].selects = 1]
    /\ UNCHANGED <<earlier, call, result, proc, fileRead, rpc, slack, http, loop, support>>

\* session.rpc.agent.deselect()
AgentDeselect ==
    /\ \E sid \in 1..Len(sessions) :
        /\ InvokeRpc(DeselectRequest(sid))
        /\ hist' = [hist EXCEPT ![sid].last = "deselect"]
    /\ UNCHANGED <<earlier, call, result, proc, fileRead, rpc, slack, http, loop, support>>

NextAgent == CreateSession \/ AgentList \/ AgentGetCurrent \/ AgentSelect \/ AgentDeselect

SpecAgent == InitIdle /\ [][NextAgent]_vars

(***************************************************************************)
(* Data analyst agent: compute_stats.  Values with decimals (mean, median, *)
(* std_dev) are kept in hundredths, so Math.round(x * 100) / 100 is the    *)
(* integer Math.round(x * 100).                                            *)
(***************************************************************************)
MaxStatLen == 5

\* [...data].sort((a, b) => a - b): ascending numeric order
RECURSIVE InsertSorted(_, _)
InsertSorted(x, s) ==
    IF s = <<>> THEN <<x>>
    ELSE IF x <= Head(s) THEN <<x>> \o s
    ELSE <<Head(s)>> \o InsertSorted(x, Tail(s))

\* The array left in the order it was given.
SortAscending_Unsorted(s) == s

RECURSIVE SortAscending(_)
SortAscending(s) ==
    IF s = <<>> THEN <<>> ELSE InsertSorted(Head(s), SortAscending(Tail(s)))

\* reduce((a, b) => a + b, 0)
RECURSIVE SumSeq(_)
SumSeq(s) == IF s = <<>> THEN 0 ELSE Head(s) + SumSeq(Tail(s))

\* Math.round(num / den) for den > 0: the nearest integer, halves upwards
RoundDiv(num, den) == (2 * num + den) \div (2 * den)

\* Math.round(Math.sqrt(variance) * 100) where variance = q / (n * n):
\* the r with r - 1/2 <= 100 * sqrt(q) / n < r + 1/2
RoundSqrt100(q, n) ==
    IF q = 0 THEN 0
    ELSE LET \* floor(sqrt(q)), then one decimal digit at a time
             s0 == CHOOSE s \in 0..q : s * s <= q /\ q < (s + 1) * (s + 1)
             s1 == CHOOSE s \in (10 * s0)..(10 * s0 + 9) :
                      s * s <= 100 * q /\ 100 * q < (s + 1) * (s + 1)
             s2 == CHOOSE s \in (10 * s1)..(10 * s1 + 9) :
                      s * s <= 10000 * q /\ 10000 * q < (s + 1) * (s + 1)
         IN  CHOOSE r \in (s2 \div n)..((s2 + 1) \div n + 1) :
                /\ (2 * r - 1) * (2 * r - 1) * n * n <= 40000 * q
                /\ 40000 * q < (2 * r + 1) * (2 * r + 1) * n * n

\* Mutant of computeStats: the median is read from the array as given.
computeStats_MedianUnsorted(data, columnArg) ==
    IF Len(data) = 0 THEN Err("empty_array")
    ELSE
    LET column_name == OrDefault(columnArg, "value")
        sorted == SortAscending(data)
        n == Len(sorted)
        sum == SumSeq(sorted)
        q == n * SumSeq([i \in 1..n |-> sorted[i] * sorted[i]]) - sum * sum
        median2 == IF n % 2 = 0 THEN data[n \div 2] + data[n \div 2 + 1]
                   ELSE 2 * data[n \div 2 + 1]
    IN  [kind |-> "ok", why |-> "stats", column |-> column_name, count |-> n,
         min |-> sorted[1], max |-> sorted[n],
         mean |-> RoundDiv(100 * sum, n),
         median |-> RoundDiv(100 * median2, 2),
         std_dev |-> RoundSqrt100(q, n),
         p25 |-> sorted[n \div 4 + 1], p75 |-> sorted[(3 * n) \div 4 + 1]]

\* computeStats handler
computeStats(data, columnArg) ==
    IF Len(data) = 0 THEN Err("empty_array")
    ELSE
    LET column_name == OrDefault(columnArg, "value")
        sorted == SortAscending(data)
        n == Len(sorted)
        sum == SumSeq(sorted)
        \* n * n * variance: sum of (b - mean)^2 over n, times n * n
        q == n * SumSeq([i \in 1..n |-> sorted[i] * sorted[i]]) - sum * sum
        \* twice the median
        median2 == IF n % 2 = 0 THEN sorted[n \div 2] + sorted[n \div 2 + 1]
                   ELSE 2 * sorted[n \div 2 + 1]
    IN  [kind |-> "ok", why |-> "stats", column |-> column_name, count |-> n,
         min |-> sorted[1], max |-> sorted[n],
         mean |-> RoundDiv(100 * sum, n),
         median |-> RoundDiv(100 * median2, 2),
         std_dev |-> RoundSqrt100(q, n),
         p25 |-> sorted[n \div 4 + 1], p75 |-> sorted[(3 * n) \div 4 + 1]]

StatValues == {-2, 1, 2, 3, 4, 5}
StatInputs == SeqsUpTo(StatValues, MaxStatLen)
ColumnInputs == Opt({"revenue"})

\* One compute_stats call with its array drawn from the given set.
ComputeStatsFrom(arrays) ==
    /\ call = NoCall
    /\ \E data \in arrays, column_name \in ColumnInputs :
        /\ call' = [tool |-> "compute_stats", data |-> data, column_name |-> column_name]
        /\ result' = computeStats(data, column_name)
        /\ UNCHANGED <<earlier, proc, fileRead, sessions, reply, hist, rpc, slack, http, loop, support>>

ComputeStats == ComputeStatsFrom(StatInputs)

\* compute_stats has a specification of its own: its inputs are arrays, the
\* other two tools' inputs are texts.
NextStats == ComputeStats \/ ReturnResult

SpecStats == InitIdle /\ [][NextStats]_vars

NextData == RunSqlQuery \/ LoadCsv \/ ReturnResult

SpecData == InitIdle /\ [][NextData]_vars

NextCsv == LoadCsvPreview \/ ReturnResult

SpecCsv == InitIdle /\ [][NextCsv]_vars

(***************************************************************************)
(* Customer support agent: create_ticket and escalate_to_human.  The       *)
(* console.error line each handler writes is not part of its result and is *)
(* left out.                                                               *)
(***************************************************************************)
MaxNow == 2

\* enum: ["low", "medium", "high"] of the create_ticket schema
TicketPriorities == {"low", "medium", "high"}
\* enum: ["normal", "urgent"] of the escalate_to_human schema
EscalationPriorities == {"normal", "urgent"}

\* createTicket handler; now: the value of Date.now()
createTicket(title, priority, customer_email, now) ==
    LET ticketId == <<"TKT-", now>>
    IN  [kind |-> "ok", why |-> "ticket", ticket_id |-> ticketId, status |-> "open",
         estimated_response |-> IF priority = "high" THEN "2 hours" ELSE "24 hours"]

\* escalateToHuman handler
escalateToHuman(reason, ticket_id, priorityArg) ==
    LET priority == OrDefault(priorityArg, "normal")
    IN  [kind |-> "ok", why |-> "escalation", escalated |-> TRUE,
         queue_position |-> IF priority = "urgent" THEN 1 ELSE 5,
         estimated_wait |-> IF priority = "urgent" THEN "5 minutes" ELSE "30 minutes"]

\* What the model may pass as priority: the two enums and a value in neither.
PriorityInputs == TicketPriorities \cup EscalationPriorities \cup {"critical"}
TitleInputs == {"login fails"}
EmailInputs == {"a@example.com"}
NowInputs == 1..MaxNow
TicketIdInputs == Opt({<<"TKT-", 1>>})

CreateTicket ==
    /\ call = NoCall
    /\ \E title \in TitleInputs, priority \in PriorityInputs,
          customer_email \in EmailInputs, now \in NowInputs :
        /\ call' = [tool |-> "create_ticket", title |-> title, priority |-> priority,
                    customer_email |-> customer_email, now |-> now]
        /\ result' = createTicket(title, priority, customer_email, now)
        /\ UNCHANGED <<earlier, proc, fileRead, sessions, reply, hist, rpc, slack, http, loop, support>>

EscalateToHuman ==
    /\ call = NoCall
    /\ \E reason \in TitleInputs, ticket_id \in TicketIdInputs,
          priority \in Opt(PriorityInputs) :
        /\ call' = [tool |-> "escalate_to_human", reason |-> reason,
                    ticket_id |-> ticket_id, priority |-> priority]
        /\ result' = escalateToHuman(reason, ticket_id, priority)
        /\ UNCHANGED <<earlier, proc, fileRead, sessions, reply, hist, rpc, slack, http, loop, support>>

\* A run of the support agent in which create_ticket is invoked several
\* times.  The handler has no await, so each invocation runs from start to
\* end without another one in between; the clock may or may not have moved
\* on between two invocations.
MaxTickets == 3

ClockTicks ==
    /\ support.clock < MaxNow
    /\ support' = [support EXCEPT !.clock = @ + 1]
    /\ UNCHANGED <<earlier, call, result, proc, fileRead, sessions, reply, hist, rpc, slack, http,
                   loop>>

TicketInvocation ==
    /\ Len(support.returned) < MaxTickets
    /\ \E title \in TitleInputs, priority \in PriorityInputs,
          customer_email \in EmailInputs :
        support' = [support EXCEPT !.returned =
                       Append(@, [priority |-> priority,
                                  result |-> createTicket(title, priority, customer_email,
                                                          support.clock)])]
    /\ UNCHANGED <<earlier, call, result, proc, fileRead, sessions, reply, hist, rpc, slack, http,
                   loop>>

NextTickets == ClockTicks \/ TicketInvocation

SpecTickets == InitIdle /\ [][NextTickets]_vars

NextSupport == CreateTicket \/ EscalateToHuman \/ ReturnResult

\* The tool handlers of the DevOps, data analyst and customer support agents,
\* called one at a time.
NextTools == NextDevOps \/ NextData \/ NextStats \/ NextSupport

SpecTools == InitIdle /\ [][NextTools]_vars

(***************************************************************************)
(* The validators of the six DevOps and data analyst tools, called again   *)
(* and again on a few inputs; the caller keeps one earlier call with the   *)
(* verdict it got.                                                         *)
(***************************************************************************)
ValidationErrors ==
    {"no_command", "not_allowed", "invalid_service", "invalid_namespace",
     "invalid_duration", "only_select", "semicolon", "invalid_path", "not_csv",
     "outside_data_dir", "empty_array"}

\* The validator's verdict as the result shows it: an error of the validation.
IsRejection(r) == r.kind = "error" /\ r.why \in ValidationErrors

RunKubectlAgain == RunKubectlFrom({<<>>, w_get, w_delete})
FetchLogsAgain == FetchLogsFrom({<<"a">>, <<";">>}, {}, {<<"d">>, <<"2", "h">>})
ListRecentDeploymentsAgain == ListRecentDeploymentsFrom({<<>>})
RunSqlQueryAgain == RunSqlQueryFrom({w_select, w_drop, w_select \o <<";">>})
LoadCsvAgain ==
    LoadCsvFrom(CsvPathInputs \cup {<<"/", "a">> \o w_dotcsv}, {{}}, Opt({<<"h", "\n", "1">>}))
ComputeStatsAgain == ComputeStatsFrom({<<>>, <<1>>})

\* The handler's promise resolves as in ReturnResult, and the caller notes
\* the call and its verdict in place of the one it had noted.
ReturnNoted ==
    /\ call # NoCall
    /\ earlier' = [call |-> call, rejected |-> IsRejection(result)]
    /\ call' = NoCall
    /\ result' = NoResult
    /\ proc' = NoProc
    /\ fileRead' = <<>>
    /\ http' = NoHttp
    /\ UNCHANGED <<sessions, reply, hist, rpc, slack, loop, support>>

NextValidators ==
    \/ RunKubectlAgain \/ FetchLogsAgain \/ ListRecentDeploymentsAgain
    \/ RunSqlQueryAgain \/ LoadCsvAgain \/ ComputeStatsAgain
    \/ ReturnNoted \/ ReturnResult

SpecValidators == InitIdle /\ [][NextValidators]_vars

(***************************************************************************)
(* CI/CD security gate: run_security_gate of docs/use-cases/integrations.md.*)
(* The agent's output arrives as the delta_content of events.  A text is a  *)
(* sequence of pieces: a piece is plain text or one JSON document.          *)
(***************************************************************************)
MaxParts == 2
MaxFindings == 2

TextPiece(s) == [t |-> "text", s |-> s]
JsonPiece(v) == [t |-> "json", v |-> v]

\* "".join(result_parts)
JoinParts(parts) == SelectSeq(parts, LAMBDA piece : piece # TextPiece(<<>>))

\* json.loads: the value of the one JSON document of the text, with nothing
\* but whitespace around it; JSONDecodeError for any other text.
JsonLoads(text) ==
    LET pieces == SelectSeq(text, LAMBDA piece : ~(piece.t = "text" /\ Trim(piece.s) = <<>>))
    IN  IF Len(pieces) = 1 /\ pieces[1].t = "json"
        THEN [error |-> FALSE, value |-> pieces[1].v]
        ELSE [error |-> TRUE]

\* sys.exit(status); an exception nothing catches ends the interpreter with 1
Exit(status, why) == [kind |-> "exit", why |-> why, status |-> status]

\* run_security_gate from json.loads on: the exit of the process on the
\* result_parts collected.  The print of a finding's file, line and message
\* happens after the status is decided (a missing key raises: status 1 too).
GateExit(result_parts) ==
    LET loaded == JsonLoads(JoinParts(result_parts))
    IN  IF loaded.error THEN Exit(0, "could_not_parse")
        ELSE LET review == loaded.value
             IN  IF review.shape # "object" THEN Exit(1, "uncaught_exception")
                 ELSE LET findings == OrDefault(review.findings, <<>>)
                          critical == SelectSeq(findings,
                                                LAMBDA f : f.severity = {"critical"})
                      IN  IF critical # <<>> THEN Exit(1, "failed") ELSE Exit(0, "passed")

\* Findings with a severity (or none), reviews as objects with or without a
\* findings key or as a bare array, and the pieces an event can carry: a
\* review, a Markdown fence (~~~), white space, or nothing (no delta_content).
FindingInputs == {[severity |-> {"critical"}], [severity |-> {"high"}], [severity |-> {}]}
ReviewInputs ==
    {[shape |-> "object", findings |-> f] : f \in Opt(SeqsUpTo(FindingInputs, MaxFindings))}
        \cup {[shape |-> "array", findings |-> {<<[severity |-> {"critical"}]>>}]}
PieceInputs ==
    {JsonPiece(v) : v \in ReviewInputs}
        \cup {TextPiece(<<"~", "~", "~">>), TextPiece(<<" ">>), TextPiece(<<>>)}

\* python security_gate.py: the client is started, the session created, the
\* handler subscribed and the prompt sent.
GateStarts ==
    /\ call = NoCall
    /\ call' = [tool |-> "run_security_gate", pc |-> "send_and_wait", result_parts |-> <<>>,
                stopped |-> FALSE]
    /\ UNCHANGED <<earlier, result, proc, fileRead, sessions, reply, hist, rpc, slack, http, loop, support>>

\* session.on handler: an event arrives while send_and_wait is pending.
GateEvent ==
    /\ call.tool = "run_security_gate"
    /\ call.pc = "send_and_wait"
    /\ Len(call.result_parts) < MaxParts
    /\ \E piece \in PieceInputs :
        call' = [call EXCEPT !.result_parts = Append(@, piece)]
    /\ UNCHANGED <<earlier, result, proc, fileRead, sessions, reply, hist, rpc, slack, http, loop, support>>

\* await session.send_and_wait(...) returns.
GateSendAndWaitReturns ==
    /\ call.tool = "run_security_gate"
    /\ call.pc = "send_and_wait"
    /\ call' = [call EXCEPT !.pc = "stop"]
    /\ UNCHANGED <<earlier, result, proc, fileRead, sessions, reply, hist, rpc, slack, http, loop, support>>

\* await session.send_and_wait(...) raises: nothing catches it.
GateSendAndWaitRaises ==
    /\ call.tool = "run_security_gate"
    /\ call.pc = "send_and_wait"
    /\ call' = [call EXCEPT !.pc = "exited"]
    /\ result' = Exit(1, "uncaught_exception")
    /\ UNCHANGED <<earlier, proc, fileRead, sessions, reply, hist, rpc, slack, http, loop, support>>

\* await client.stop(), then the output is parsed and the process exits.
GateStopsAndExits ==
    /\ call.tool = "run_security_gate"
    /\ call.pc = "stop"
    /\ call' = [call EXCEPT !.pc = "exited", !.stopped = TRUE]
    /\ result' = GateExit(call.result_parts)
    /\ UNCHANGED <<earlier, proc, fileRead, sessions, reply, hist, rpc, slack, http, loop, support>>

NextGate ==
    \/ GateStarts \/ GateEvent \/ GateSendAndWaitReturns \/ GateSendAndWaitRaises
    \/ GateStopsAndExits

SpecGate == InitIdle /\ [][NextGate]_vars

(***************************************************************************)
(* Generated RPC client: ServerRpc, SessionRpc and their API objects.  A   *)
(* request is the record the method serialises, with the JSON-RPC method   *)
(* name added; a method called with [] sends the method name alone.        *)
(***************************************************************************)
MaxRpcObjects == 2

\* Mutant of SessionRpc: the AgentApi is built without the session id.
SessionRpc_AgentApiUnset(sessionId) ==
    [sessionId |-> sessionId,
     Model |-> [sessionId |-> sessionId], Mode |-> [sessionId |-> sessionId],
     Plan |-> [sessionId |-> sessionId], Workspace |-> [sessionId |-> sessionId],
     Fleet |-> [sessionId |-> sessionId], Agent |-> [sessionId |-> ""],
     Compaction |-> [sessionId |-> sessionId]]

\* SessionRpc constructor: every API object gets the same sessionId in its
\* readonly _sessionId field.
SessionRpc(sessionId) ==
    [sessionId |-> sessionId,
     Model |-> [sessionId |-> sessionId], Mode |-> [sessionId |-> sessionId],
     Plan |-> [sessionId |-> sessionId], Workspace |-> [sessionId |-> sessionId],
     Fleet |-> [sessionId |-> sessionId], Agent |-> [sessionId |-> sessionId],
     Compaction |-> [sessionId |-> sessionId]]

SessionStubs ==
    {"Model.GetCurrentAsync", "Model.SwitchToAsync", "Mode.GetAsync", "Mode.SetAsync",
     "Plan.ReadAsync", "Plan.UpdateAsync", "Plan.DeleteAsync",
     "Workspace.ListFilesAsync", "Workspace.ReadFileAsync", "Workspace.CreateFileAsync",
     "Fleet.StartAsync", "Agent.ListAsync", "Agent.GetCurrentAsync",
     "Agent.SelectAsync", "Agent.DeselectAsync", "Compaction.CompactAsync"}

ServerStubs == {"PingAsync", "Models.ListAsync", "Tools.ListAsync", "Account.GetQuotaAsync"}

\* The request each method of the session-scoped API objects builds:
\* new Session...Request { SessionId = _sessionId, ... }
SessionRequest(obj, stub, a, b) ==
    CASE stub = "Model.GetCurrentAsync" ->
            [method |-> "session.model.getCurrent", sessionId |-> obj.Model.sessionId]
      [] stub = "Model.SwitchToAsync" ->
            [method |-> "session.model.switchTo", sessionId |-> obj.Model.sessionId,
             modelId |-> a]
      [] stub = "Mode.GetAsync" ->
            [method |-> "session.mode.get", sessionId |-> obj.Mode.sessionId]
      [] stub = "Mode.SetAsync" ->
            [method |-> "session.mode.set", sessionId |-> obj.Mode.sessionId, mode |-> a]
      [] stub = "Plan.ReadAsync" ->
            [method |-> "session.plan.read", sessionId |-> obj.Plan.sessionId]
      [] stub = "Plan.UpdateAsync" ->
            [method |-> "session.plan.update", sessionId |-> obj.Plan.sessionId,
             content |-> a]
      [] stub = "Plan.DeleteAsync" ->
            [method |-> "session.plan.delete", sessionId |-> obj.Plan.sessionId]
      [] stub = "Workspace.ListFilesAsync" ->
            [method |-> "session.workspace.listFiles",
             sessionId |-> obj.Workspace.sessionId]
      [] stub = "Workspace.ReadFileAsync" ->
            [method |-> "session.workspace.readFile",
             sessionId |-> obj.Workspace.sessionId, path |-> a]
      [] stub = "Workspace.CreateFileAsync" ->
            [method |-> "session.workspace.createFile",
             sessionId |-> obj.Workspace.sessionId, path |-> a, content |-> b]
      [] stub = "Fleet.StartAsync" ->
            [method |-> "session.fleet.start", sessionId |-> obj.Fleet.sessionId,
             prompt |-> a]
      [] stub = "Agent.ListAsync" -> ListRequest(obj.Agent.sessionId)
      [] stub = "Agent.GetCurrentAsync" -> GetCurrentRequest(obj.Agent.sessionId)
      [] stub = "Agent.SelectAsync" -> SelectRequest(obj.Agent.sessionId, a)
      [] stub = "Agent.DeselectAsync" -> DeselectRequest(obj.Agent.sessionId)
      [] stub = "Compaction.CompactAsync" ->
            [method |-> "session.compaction.compact",
             sessionId |-> obj.Compaction.sessionId]

\* The request each server-scoped method builds; ModelsApi.ListAsync and
\* AccountApi.GetQuotaAsync pass [] as parameters.
ServerRequest(stub, a) ==
    CASE stub = "PingAsync" -> [method |-> "ping", message |-> a]
      [] stub = "Models.ListAsync" -> [method |-> "models.list"]
      [] stub = "Tools.ListAsync" -> [method |-> "tools.list", model |-> a]
      [] stub = "Account.GetQuotaAsync" -> [method |-> "account.getQuota"]

\* What the transport does with one request
TransportOutcomes == {"response", "fault", "timeout"}

\* CopilotClient.InvokeRpcAsync: the request is sent once; a response is
\* returned as the typed result, a fault or a timeout is raised as an error.
InvokeRpcAsync(request, outcome) ==
    [sent |-> <<request>>,
     returned |-> IF outcome = "response" THEN "result" ELSE "error"]

\* Mutant of AwaitInvoke: after an error the request is sent a second time.
AwaitInvoke_RetryOnError(request, outcome) ==
    LET first == InvokeRpcAsync(request, outcome)
        second == InvokeRpcAsync(request, outcome)
    IN  IF first.returned = "error"
        THEN [sent |-> first.sent \o second.sent, returned |-> second.returned]
        ELSE first

\* return await CopilotClient.InvokeRpcAsync<T>(_rpc, method, [request], ...):
\* the body every generated method ends with.
AwaitInvoke(request, outcome) == InvokeRpcAsync(request, outcome)

SessionIdInputs == {"s1", "s2"}
ArgInputs == {"x", "y"}

\* new SessionRpc(rpc, sessionId); ctor remembers the constructor argument
NewSessionRpc ==
    /\ Len(rpc.objs) < MaxRpcObjects
    /\ \E sessionId \in SessionIdInputs :
        rpc' = [rpc EXCEPT !.objs = Append(@, [ctor |-> sessionId,
                                               api |-> SessionRpc(sessionId)])]
    /\ UNCHANGED <<earlier, call, result, proc, fileRead, sessions, reply, hist, slack, http, loop, support>>

\* A call of one method of a SessionRpc object's API objects
SessionCall ==
    /\ \E i \in 1..Len(rpc.objs), stub \in SessionStubs, a \in ArgInputs, b \in ArgInputs,
          outcome \in TransportOutcomes :
        LET r == AwaitInvoke(SessionRequest(rpc.objs[i].api, stub, a, b), outcome)
        IN  rpc' = [rpc EXCEPT !.last = [stub |-> stub, scope |-> "session", obj |-> i,
                                         outcome |-> outcome, sent |-> r.sent,
                                         returned |-> r.returned]]
    /\ UNCHANGED <<earlier, call, result, proc, fileRead, sessions, reply, hist, slack, http, loop, support>>

\* A call of one method of ServerRpc or its API objects
ServerCall ==
    /\ \E stub \in ServerStubs, a \in ArgInputs, outcome \in TransportOutcomes :
        LET r == AwaitInvoke(ServerRequest(stub, a), outcome)
        IN  rpc' = [rpc EXCEPT !.last = [stub |-> stub, scope |-> "server", obj |-> 0,
                                         outcome |-> outcome, sent |-> r.sent,
                                         returned |-> r.returned]]
    /\ UNCHANGED <<earlier, call, result, proc, fileRead, sessions, reply, hist, slack, http, loop, support>>

NextRpc == NewSessionRpc \/ SessionCall \/ ServerCall

SpecRpc == InitIdle /\ [][NextRpc]_vars

(***************************************************************************)
(* Slack bot with persistent sessions: the app_mention handler.  Handlers  *)
(* are coroutines on one event loop: a handler runs alone from one await   *)
(* to the next, and other handlers run while it waits.                     *)
(***************************************************************************)
MaxMentions == 3

\* A dict as a set of [key, value] entries with at most one entry per key
DictHas(d, k) == \E e \in d : e.key = k
DictGet(d, k) == (CHOOSE e \in d : e.key = k).value
DictSet(d, k, v) == {e \in d : e.key # k} \cup {[key |-> k, value |-> v]}

TsInputs == {"t1", "t2"}
\* An app_mention event: ts, and thread_ts when the mention is inside a thread
EventInputs == [ts : TsInputs, thread_ts : Opt(TsInputs)]

\* handle_mention up to its first await: thread_ts = event.get("thread_ts",
\* event["ts"]); if thread_ts not in sessions the handler awaits
\* create_session, else it takes sessions[thread_ts] and awaits send_and_wait.
handle_mention(event, dict) ==
    LET thread_ts == OrDefault(event.thread_ts, event.ts)
    IN  IF ~DictHas(dict, thread_ts)
        THEN [task |-> [thread_ts |-> thread_ts, pc |-> "create_session", session |-> 0],
              sessions |-> dict]
        ELSE [task |-> [thread_ts |-> thread_ts, pc |-> "send_and_wait",
                        session |-> DictGet(dict, thread_ts)],
              sessions |-> dict]

\* Slack delivers an app_mention event and the handler starts.
Mention ==
    /\ Len(slack.tasks) < MaxMentions
    /\ \E event \in EventInputs :
        LET h == handle_mention(event, slack.sessions)
        IN  slack' = [slack EXCEPT !.tasks = Append(@, h.task), !.sessions = h.sessions]
    /\ UNCHANGED <<earlier, call, result, proc, fileRead, sessions, reply, hist, rpc, http, loop, support>>

\* await copilot.create_session({...}) returns a new session: it is stored
\* under thread_ts, read back, and the handler awaits send_and_wait.
CreateSessionReturns ==
    /\ \E i \in 1..Len(slack.tasks) :
        /\ slack.tasks[i].pc = "create_session"
        /\ LET new == Len(slack.created) + 1
               thread_ts == slack.tasks[i].thread_ts
               dict == DictSet(slack.sessions, thread_ts, new)
           IN  slack' = [sessions |-> dict,
                         tasks |-> [slack.tasks EXCEPT ![i].pc = "send_and_wait",
                                                       ![i].session = DictGet(dict, thread_ts)],
                         created |-> Append(slack.created, thread_ts)]
    /\ UNCHANGED <<earlier, call, result, proc, fileRead, sessions, reply, hist, rpc, http, loop, support>>

\* await copilot.create_session({...}) raises: the handler ends.
CreateSessionRaises ==
    /\ \E i \in 1..Len(slack.tasks) :
        /\ slack.tasks[i].pc = "create_session"
        /\ slack' = [slack EXCEPT !.tasks[i].pc = "raised"]
    /\ UNCHANGED <<earlier, call, result, proc, fileRead, sessions, reply, hist, rpc, http, loop, support>>

\* await session.send_and_wait({...}) returns; the handler awaits say(...).
SendAndWaitReturns ==
    /\ \E i \in 1..Len(slack.tasks) :
        /\ slack.tasks[i].pc = "send_and_wait"
        /\ slack' = [slack EXCEPT !.tasks[i].pc = "say"]
    /\ UNCHANGED <<earlier, call, result, proc, fileRead, sessions, reply, hist, rpc, http, loop, support>>

\* await say(result, thread_ts=thread_ts) returns; the handler is done.
SayReturns ==
    /\ \E i \in 1..Len(slack.tasks) :
        /\ slack.tasks[i].pc = "say"
        /\ slack' = [slack EXCEPT !.tasks[i].pc = "done"]
    /\ UNCHANGED <<earlier, call, result, proc, fileRead, sessions, reply, hist, rpc, http, loop, support>>

NextSlack ==
    Mention \/ CreateSessionReturns \/ CreateSessionRaises \/ SendAndWaitReturns \/ SayReturns

SpecSlack == InitIdle /\ [][NextSlack]_vars

(***************************************************************************)
(* Code review agent: fetch_diff and post_review_comment.  An environment  *)
(* variable is {} when unset and {value} when set; the promise of fetch    *)
(* either rejects (a network error) or resolves to a response.             *)
(***************************************************************************)
\* a ?? b ?? "": the first of the two that is set, even to the empty string
TokenFromEnv(githubToken, ghToken) ==
    IF githubToken # {} THEN OrDefault(githubToken, "")
    ELSE OrDefault(ghToken, "")

Throw(why) == [kind |-> "throw", why |-> why]

\* fetchDiff handler
fetchDiff(owner, repo, pr_number, githubToken, ghToken, response) ==
    LET token == TokenFromEnv(githubToken, ghToken)
        request == [method |-> "GET", url |-> <<"repos", owner, repo, "pulls", pr_number>>,
                    accept |-> "application/vnd.github.v3.diff",
                    authorization |-> IF token # "" THEN <<"Bearer ", token>> ELSE <<>>]
    IN  [http |-> request,
         result |-> IF response.rejected THEN Throw("fetch_failed")
                    ELSE IF ~response.ok
                    THEN [kind |-> "error", why |-> "github_api_error",
                          status |-> response.status]
                    ELSE Ok("diff")]

\* postReviewComment handler
postReviewComment(owner, repo, pr_number, githubToken, ghToken, response) ==
    LET token == TokenFromEnv(githubToken, ghToken)
        request == [method |-> "POST",
                    url |-> <<"repos", owner, repo, "pulls", pr_number, "comments">>,
                    accept |-> "application/vnd.github.v3+json",
                    authorization |-> <<"Bearer ", token>>]
    IN  [http |-> request,
         result |-> IF response.rejected THEN Throw("fetch_failed")
                    ELSE IF ~response.ok
                    THEN [kind |-> "error", why |-> "github_api_error",
                          status |-> response.status]
                    ELSE Ok("comment")]

\* What api.github.com can answer: a pull request of a public repository is
\* readable without credentials; a comment is never created without them.
GitHubResponses(method, token) ==
    {[rejected |-> TRUE],
     [rejected |-> FALSE, ok |-> FALSE, status |-> 403],
     [rejected |-> FALSE, ok |-> FALSE, status |-> 404]}
    \cup (IF token = "" THEN {[rejected |-> FALSE, ok |-> FALSE, status |-> 401]} ELSE {})
    \cup (IF method = "GET" THEN {[rejected |-> FALSE, ok |-> TRUE, status |-> 200]}
          ELSE IF token # "" THEN {[rejected |-> FALSE, ok |-> TRUE, status |-> 201]}
          ELSE {})

TokenInputs == Opt({"", "ghp"})
OwnerInputs == {"octo"}
RepoInputs == {"app"}
PrNumberInputs == {1, 2}

FetchDiff ==
    /\ call = NoCall
    /\ \E owner \in OwnerInputs, repo \in RepoInputs, pr_number \in PrNumberInputs,
          githubToken \in TokenInputs, ghToken \in TokenInputs :
        \E response \in GitHubResponses("GET", TokenFromEnv(githubToken, ghToken)) :
            LET r == fetchDiff(owner, repo, pr_number, githubToken, ghToken, response)
            IN  /\ call' = [tool |-> "fetch_diff", owner |-> owner, repo |-> repo,
                            pr_number |-> pr_number, GITHUB_TOKEN |-> githubToken,
                            GH_TOKEN |-> ghToken]
                /\ result' = r.result
                /\ http' = r.http
                /\ UNCHANGED <<earlier, proc, fileRead, sessions, reply, hist, rpc, slack, loop, support>>

PostReviewComment ==
    /\ call = NoCall
    /\ \E owner \in OwnerInputs, repo \in RepoInputs, pr_number \in PrNumberInputs,
          githubToken \in TokenInputs, ghToken \in TokenInputs :
        \E response \in GitHubResponses("POST", TokenFromEnv(githubToken, ghToken)) :
            LET r == postReviewComment(owner, repo, pr_number, githubToken, ghToken,
                                       response)
            IN  /\ call' = [tool |-> "post_review_comment", owner |-> owner,
                            repo |-> repo, pr_number |-> pr_number,
                            GITHUB_TOKEN |-> githubToken, GH_TOKEN |-> ghToken]
                /\ result' = r.result
                /\ http' = r.http
                /\ UNCHANGED <<earlier, proc, fileRead, sessions, reply, hist, rpc, slack, loop, support>>

NextReview == FetchDiff \/ PostReviewComment \/ ReturnResult

SpecReview == InitIdle /\ [][NextReview]_vars

(***************************************************************************)
(* The interactive loop of the examples (the same code in the DevOps, data *)
(* analyst and customer support examples): prompt() asks a line with       *)
(* rl.question; the async callback either stops the client and closes      *)
(* readline, or sends the line with sendAndWait and calls prompt() again.  *)
(***************************************************************************)
MaxLines == 4

w_exit == <<"e", "x", "i", "t">>

\* Mutant of OnLine: the comparison with "exit" is case-sensitive.
OnLine_CaseSensitive(l, input) ==
    IF input = w_exit
    THEN [l EXCEPT !.lines = Append(@, input), !.pc = "stopping", !.stopCalled = TRUE]
    ELSE [l EXCEPT !.lines = Append(@, input), !.pc = "sending",
                   !.prompts = Append(@, input), !.inFlight = @ + 1]

\* Mutant of OnLine: prompt() is called without awaiting sendAndWait.
OnLine_NoAwait(l, input) ==
    IF ToLowerCase(input) = w_exit
    THEN [l EXCEPT !.lines = Append(@, input), !.pc = "stopping", !.stopCalled = TRUE]
    ELSE [l EXCEPT !.lines = Append(@, input), !.pc = "question",
                   !.prompts = Append(@, input), !.inFlight = @ + 1]

\* The callback of rl.question up to its first await: on "exit" (any letter
\* case) it calls client.stop(), otherwise session.sendAndWait({ prompt: input })
OnLine(l, input) ==
    IF ToLowerCase(input) = w_exit
    THEN [l EXCEPT !.lines = Append(@, input), !.pc = "stopping", !.stopCalled = TRUE]
    ELSE [l EXCEPT !.lines = Append(@, input), !.pc = "sending",
                   !.prompts = Append(@, input), !.inFlight = @ + 1]

LineInputs ==
    {w_exit, <<"E", "X", "I", "T">>, <<"E", "x", "i", "t">>, <<"h", "i">>,
     <<" ", "e", "x", "i", "t">>}

\* The user enters a line: readline calls the callback with it.
UserEnters ==
    /\ loop.pc = "question"
    /\ Len(loop.lines) < MaxLines
    /\ \E input \in LineInputs : loop' = OnLine(loop, input)
    /\ UNCHANGED <<earlier, call, result, proc, fileRead, sessions, reply, hist, rpc, slack, http,
                   support>>

\* await session.sendAndWait(...) resolves; prompt() asks the next line.
SendAndWaitResolves ==
    /\ loop.pc = "sending"
    /\ loop' = [loop EXCEPT !.inFlight = @ - 1, !.pc = "question"]
    /\ UNCHANGED <<earlier, call, result, proc, fileRead, sessions, reply, hist, rpc, slack, http,
                   support>>

\* await session.sendAndWait(...) rejects (RPC or transport error, timeout):
\* the callback's promise rejects, nothing catches it and prompt() is not
\* called.
SendAndWaitRejects ==
    /\ loop.pc = "sending"
    /\ loop' = [loop EXCEPT !.inFlight = @ - 1, !.pc = "rejected"]
    /\ UNCHANGED <<earlier, call, result, proc, fileRead, sessions, reply, hist, rpc, slack, http,
                   support>>

\* await client.stop() completes; rl.close(); return
StopCompletes ==
    /\ loop.pc = "stopping"
    /\ loop' = [loop EXCEPT !.stopped = TRUE, !.rlClosed = TRUE, !.pc = "closed"]
    /\ UNCHANGED <<earlier, call, result, proc, fileRead, sessions, reply, hist, rpc, slack, http,
                   support>>

NextLoop == UserEnters \/ SendAndWaitResolves \/ SendAndWaitRejects \/ StopCompletes

SpecLoop == InitIdle /\ [][NextLoop]_vars

\* Every promise the loop awaits settles: sendAndWait resolves or rejects,
\* client.stop() completes.
SpecLoopLive ==
    /\ SpecLoop
    /\ WF_vars(SendAndWaitResolves \/ SendAndWaitRejects)
    /\ WF_vars(StopCompletes)

(***************************************************************************)
(* Claims about the DevOps tools (checked under SpecDevOps)                *)
(***************************************************************************)
Started == proc.via # "none"
Rejected == result.kind = "error" /\ ~Started

\* The kubectl argument vector a started process runs: the array handed to
\* execFile, or the words /bin/sh splits the command line into.
KubectlArgv ==
    IF proc.via = "execFile" THEN proc.args ELSE Tail(SplitArgs(proc.cmdline))

CallNamespace == OrDefault(call.namespace, w_production)
CallSince == OrDefault(call.since, <<"1", "h">>)

\* C1: fetch_logs, in both copies, rejects with an error result (and starts no
\* kubectl) every call whose service or namespace does not match
\* K8S_NAME_PATTERN, and starts kubectl when both match (and the duration is
\* valid).
C1_NamesValidatedInBothCopies ==
    call.tool = "fetch_logs" =>
        /\ ~(K8S_NAME_PATTERN(call.service) /\ K8S_NAME_PATTERN(CallNamespace)) => Rejected
        /\ (K8S_NAME_PATTERN(call.service) /\ K8S_NAME_PATTERN(CallNamespace)
                /\ DURATION_PATTERN(CallSince)) => Started

\* C2: run_kubectl, in both copies, starts kubectl exactly when the first
\* whitespace-separated token of the command is one of the five allowed words,
\* and otherwise returns an error and starts nothing.
C2_FirstTokenAllowlistedInBothCopies ==
    call.tool = "run_kubectl" =>
        LET args == SplitArgs(call.command)
            allowed == Len(args) > 0 /\ args[1] \in ALLOWED_KUBECTL_PREFIXES
        IN  /\ Started <=> allowed
            /\ ~allowed => Rejected

\* C3: run_kubectl never runs a rollout subcommand other than "rollout status".
C3_RolloutStatusOnly ==
    (call.tool = "run_kubectl" /\ Started) =>
        LET argv == KubectlArgv
        IN  (Len(argv) >= 1 /\ argv[1] = w_rollout) => (Len(argv) >= 2 /\ argv[2] = w_status)

\* C4: the handlers of agents/devops-agent/examples/nodejs.ts never start
\* kubectl through a shell command line.
C4_ExampleNeverUsesShell ==
    (call.tool \in {"run_kubectl", "fetch_logs"} /\ call.copy = "example") =>
        proc.via # "shell"

\* C10: fetch_logs rejects with an error result (and starts no kubectl) every
\* call whose `since` does not match DURATION_PATTERN, and accepts a matching
\* one when the names are valid.
C10_SinceValidated ==
    (call.tool = "fetch_logs" /\ call.copy = "example") =>
        /\ ~DURATION_PATTERN(CallSince) => Rejected
        /\ (DURATION_PATTERN(CallSince) /\ K8S_NAME_PATTERN(call.service)
                /\ K8S_NAME_PATTERN(CallNamespace)) => Started

(***************************************************************************)
(* Claims about the data analyst tools (checked under SpecData)            *)
(***************************************************************************)
\* The non-empty segments of a path.
PathSegs(p) == SelectSeq(SplitOn(p, "/", <<>>), LAMBDA seg : seg # <<>>)

HasDotDotSegment(p) == \E i \in 1..Len(PathSegs(p)) : PathSegs(p)[i] = <<".", ".">>

\* file names a file strictly below directory dir (both absolute, normalized).
InsideDir(file, dir) ==
    /\ Len(PathSegs(file)) > Len(PathSegs(dir))
    /\ SubSeq(PathSegs(file), 1, Len(PathSegs(dir))) = PathSegs(dir)
    /\ \A i \in 1..Len(PathSegs(file)) : PathSegs(file)[i] \notin {<<".">>, <<".", ".">>}

\* The data directory of a load_csv call: DATA_DIR, or the working directory.
CallDataDir == PathResolve(<<OrDefault(call.dataDirEnv, call.cwd)>>, call.cwd)

StartsWithIgnoreCase(s, p) ==
    /\ Len(s) >= Len(p)
    /\ \A i \in 1..Len(p) : LowerChar(s[i]) = LowerChar(p[i])

C7_GetCurrentFollowsSelectAndDeselect ==
    /\ reply.method = "session.agent.getCurrent" =>
          LET h == hist[reply.sessionId]
          IN  /\ h.last = "select" =>
                    \E a \in reply.result.agent :
                        /\ reply.result.agent = {a}
                        /\ a = AgentDto(AgentNamed(h.customAgents, h.name))
              /\ h.last = "deselect" => reply.result.agent = {}
    /\ reply.method = "session.agent.select" =>
          LET cfg == AgentNamed(hist[reply.sessionId].customAgents, reply.request.name)
          IN  /\ reply.result.agent.name = reply.request.name
              /\ reply.result.agent.displayName = cfg.displayName

\* C7 witness: a getCurrent answered null after select, deselect on that session.
C7_Witness ==
    /\ reply.method = "session.agent.getCurrent"
    /\ hist[reply.sessionId].last = "deselect"
    /\ hist[reply.sessionId].selects > 0
    /\ reply.result.agent = {}

\* C8: on a session on which select was never called, getCurrent returns a
\* null agent, whatever custom agents the session was created with.
C8_NoSelectionOnNewSession ==
    (reply.method = "session.agent.getCurrent" /\ hist[reply.sessionId].selects = 0) =>
        reply.result.agent = {}

\* C8 witness: getCurrent answered on a never-selected session that has custom agents.
C8_Witness ==
    /\ reply.method = "session.agent.getCurrent"
    /\ hist[reply.sessionId].selects = 0
    /\ hist[reply.sessionId].last = "none"
    /\ hist[reply.sessionId].customAgents # <<>>
    /\ reply.result.agent = {}

\* C9: list returns the custom agents the session was created with, in
\* configuration order, each with its name, displayName and description
\* (the empty list for a session created without custom agents).
C9_ListReturnsConfiguredAgents ==
    reply.method = "session.agent.list" =>
        LET cfg == hist[reply.sessionId].customAgents
        IN  /\ Len(reply.result.agents) = Len(cfg)
            /\ \A i \in 1..Len(cfg) :
                  /\ reply.result.agents[i].name = cfg[i].name
                  /\ reply.result.agents[i].displayName = cfg[i].displayName
                  /\ reply.result.agents[i].description = cfg[i].description

\* C9 witness: a list of two agents was returned.
C9_Witness ==
    /\ reply.method = "session.agent.list"
    /\ Len(hist[reply.sessionId].customAgents) = 2
    /\ reply.result.agents[1].name = hist[reply.sessionId].customAgents[1].name

\* A compound duration: two or more groups of digits followed by h, m or s,
\* such as 2h30m.
RECURSIVE IsDurationGroups(_, _, _)
IsDurationGroups(s, digits, groups) ==
    IF s = <<>> THEN digits = 0 /\ groups >= 2
    ELSE IF IsDigit(Head(s)) THEN IsDurationGroups(Tail(s), digits + 1, groups)
    ELSE IF Head(s) \in {"h", "m", "s"} /\ digits > 0
         THEN IsDurationGroups(Tail(s), 0, groups + 1)
    ELSE FALSE

IsCompoundDuration(s) == IsDurationGroups(s, 0, 0)

\* C11: the duration validation of fetch_logs (the listing, which has one)
\* accepts a compound duration such as 2h30m: with valid names, kubectl is
\* started.
C11_CompoundDurationAccepted ==
    (/\ call.tool = "fetch_logs"
     /\ call.copy = "listing"
     /\ K8S_NAME_PATTERN(call.service)
     /\ K8S_NAME_PATTERN(CallNamespace)
     /\ IsCompoundDuration(CallSince)) => Started

(***************************************************************************)
(* Claims about compute_stats (checked under SpecStats)                    *)
(***************************************************************************)
\* The value at rank k (1 = smallest) of the array, counted with repetitions:
\* fewer than k elements are below it and at least k are not above it.
RankValue(data, k) ==
    CHOOSE v \in {data[i] : i \in 1..Len(data)} :
        /\ Cardinality({i \in 1..Len(data) : data[i] < v}) < k
        /\ Cardinality({i \in 1..Len(data) : data[i] <= v}) >= k

\* h is x = num / den (den > 0) rounded to two decimals, in hundredths: the
\* nearest hundredth, a tie going up as Math.round does.
IsRounded2(h, num, den) ==
    /\ 2 * (h * den - 100 * num) <= den
    /\ 2 * (100 * num - h * den) < den

FailsValidation ==
    \/ /\ call.tool = "load_csv"
       /\ \/ IsAbsolute(call.file_path)
          \/ HasDotDotSegment(call.file_path)
          \/ ~EndsWith(ToLowerCase(call.file_path), w_dotcsv)
    \/ /\ call.tool = "run_kubectl"
       /\ call.copy = "listing"
       /\ LET words == SplitArgs(call.command)
          IN  words = <<>> \/ Head(words) \notin {w_get, w_describe, w_logs, w_top, w_rollout}
    \/ /\ call.tool = "fetch_logs"
       /\ call.copy = "listing"
       /\ \/ ~K8S_NAME_PATTERN(call.service)
          \/ ~K8S_NAME_PATTERN(CallNamespace)
          \/ ~DURATION_PATTERN(CallSince)
    \/ /\ call.tool = "compute_stats"
       /\ call.data = <<>>
    \/ /\ call.tool = "create_ticket"
       /\ call.priority \notin TicketPriorities
    \/ /\ call.tool = "escalate_to_human"
       /\ call.priority # {}
       /\ call.priority \cap EscalationPriorities = {}

\* C12: every validation failure of a tool handler is returned as a structured
\* {error} result: the handler neither throws nor returns a success result.
C12_ValidationFailureReturnsError ==
    FailsValidation => result.kind = "error"

(***************************************************************************)
(* Claims about the generated RPC client (checked under SpecRpc)           *)
(***************************************************************************)
\* C14: every request of a session-scoped method carries as sessionId the id
\* its SessionRpc object was constructed with; the requests of the
\* server-scoped methods (ping, models.list, tools.list, account.getQuota)
\* carry no sessionId.
C14_SessionIdThreaded ==
    /\ (rpc.last.stub \in SessionStubs) =>
          \A k \in 1..Len(rpc.last.sent) :
              /\ "sessionId" \in DOMAIN rpc.last.sent[k]
              /\ rpc.last.sent[k].sessionId = rpc.objs[rpc.last.obj].ctor
    /\ (rpc.last.stub \in ServerStubs) =>
          \A k \in 1..Len(rpc.last.sent) :
              /\ rpc.last.sent[k].method \in
                    {"ping", "models.list", "tools.list", "account.getQuota"}
              /\ "sessionId" \notin DOMAIN rpc.last.sent[k]

\* C14 witness: an agent method was called on the second of two SessionRpc
\* objects built with different ids, and its request carried the second id.
C14_Witness ==
    /\ Len(rpc.objs) = 2
    /\ rpc.objs[1].ctor # rpc.objs[2].ctor
    /\ rpc.last.stub = "Agent.SelectAsync"
    /\ rpc.last.obj = 2
    /\ rpc.last.sent[1].sessionId = rpc.objs[2].ctor

\* The JSON-RPC method name of each generated method.
MethodName ==
    [stub \in SessionStubs \cup ServerStubs |->
        CASE stub = "PingAsync" -> "ping"
          [] stub = "Models.ListAsync" -> "models.list"
          [] stub = "Tools.ListAsync" -> "tools.list"
          [] stub = "Account.GetQuotaAsync" -> "account.getQuota"
          [] stub = "Model.GetCurrentAsync" -> "session.model.getCurrent"
          [] stub = "Model.SwitchToAsync" -> "session.model.switchTo"
          [] stub = "Mode.GetAsync" -> "session.mode.get"
          [] stub = "Mode.SetAsync" -> "session.mode.set"
          [] stub = "Plan.ReadAsync" -> "session.plan.read"
          [] stub = "Plan.UpdateAsync" -> "session.plan.update"
          [] stub = "Plan.DeleteAsync" -> "session.plan.delete"
          [] stub = "Workspace.ListFilesAsync" -> "session.workspace.listFiles"
          [] stub = "Workspace.ReadFileAsync" -> "session.workspace.readFile"
          [] stub = "Workspace.CreateFileAsync" -> "session.workspace.createFile"
          [] stub = "Fleet.StartAsync" -> "session.fleet.start"
          [] stub = "Agent.ListAsync" -> "session.agent.list"
          [] stub = "Agent.GetCurrentAsync" -> "session.agent.getCurrent"
          [] stub = "Agent.SelectAsync" -> "session.agent.select"
          [] stub = "Agent.DeselectAsync" -> "session.agent.deselect"
          [] stub = "Compaction.CompactAsync" -> "session.compaction.compact"]

\* C15: a call of a generated RPC method sends exactly one request, under the
\* method's fixed name, and never a second one; when the transport reports a
\* fault or a timeout the caller gets the error after that single attempt.
C15_OneRequestNoRetry ==
    (rpc.last.stub # "none") =>
        /\ Len(rpc.last.sent) = 1
        /\ rpc.last.sent[1].method = MethodName[rpc.last.stub]
        /\ (rpc.last.outcome # "response") => rpc.last.returned = "error"
        /\ (rpc.last.outcome = "response") => rpc.last.returned = "result"

\* C15 witness: a call whose transport timed out ended in an error after one
\* request.
C15_Witness ==
    /\ rpc.last.stub = "PingAsync"
    /\ rpc.last.outcome = "timeout"
    /\ rpc.last.returned = "error"
    /\ Len(rpc.last.sent) = 1

(***************************************************************************)
(* Claims about the Slack bot (checked under SpecSlack)                    *)
(***************************************************************************)
\* The sessions create_session has made for a thread
CreatedFor(thread_ts) == {k \in 1..Len(slack.created) : slack.created[k] = thread_ts}

\* C16: the app_mention handler creates at most one session per thread_ts,
\* also when several mentions of one thread are handled concurrently.
C16_OneSessionPerThread ==
    \A thread_ts \in TsInputs : Cardinality(CreatedFor(thread_ts)) <= 1

(***************************************************************************)
(* Claims about the code review tools (checked under SpecReview)           *)
(***************************************************************************)
\* C17: with neither GITHUB_TOKEN nor GH_TOKEN set, fetch_diff and
\* post_review_comment return a structured {error} result: they do not throw
\* and do not return a success result.
C17_MissingTokenReturnsError ==
    (/\ call.tool \in {"fetch_diff", "post_review_comment"}
     /\ call.GITHUB_TOKEN = {}
     /\ call.GH_TOKEN = {}) => result.kind = "error"

(***************************************************************************)
(* Claims about list_recent_deployments (checked under SpecDevOps)         *)
(***************************************************************************)
\* C19: list_recent_deployments returns only deployments inside the
\* look-back window of `hours` hours (24 when not given), each with name,
\* image, timestamp and status.
C19_OnlyDeploymentsInsideWindow ==
    (call.tool = "list_recent_deployments" /\ result.kind = "ok") =>
        LET hours == OrDefault(call.hours, 24)
        IN  \A i \in 1..Len(result.deployments) :
                /\ {"name", "image", "timestamp", "status"}
                      \subseteq DOMAIN result.deployments[i]
                /\ result.deployments[i].timestamp >= call.now - hours

(***************************************************************************)
(* Claims about the rows of run_sql_query (checked under SpecData)         *)
(***************************************************************************)
\* The query passes the validation of run_sql_query: no semicolon, and the
\* trimmed text starts, ignoring case, with SELECT or WITH.
SqlAccepted ==
    /\ call.tool = "run_sql_query"
    /\ ~Includes(call.sql, <<";">>)
    /\ \/ StartsWithIgnoreCase(Trim(call.sql), w_select)
       \/ StartsWithIgnoreCase(Trim(call.sql), w_With)

\* C18: for every accepted query run_sql_query returns columns, rows and
\* row_count, where row_count is the number of rows and the rows are at most
\* `limit` (100 when not given).
C18_RowsWithinLimit ==
    SqlAccepted =>
        /\ result.kind = "ok"
        /\ {"columns", "rows", "row_count"} \subseteq DOMAIN result
        /\ result.row_count = Len(result.rows)
        /\ Len(result.rows) <= OrDefault(call.limit, 100)

\* The statement words that write: INSERT, UPDATE, DELETE, DROP, TRUNCATE
WriteWords ==
    {<<"I", "N", "S", "E", "R", "T">>, <<"U", "P", "D", "A", "T", "E">>,
     <<"D", "E", "L", "E", "T", "E">>, <<"D", "R", "O", "P">>,
     <<"T", "R", "U", "N", "C", "A", "T", "E">>}

\* The text holds one of them, in any letter case, as a word of its own.
HasWriteWord(sql) ==
    LET words == SplitWs(ToUpperCase(sql), <<>>)
    IN  \E i \in 1..Len(words) : words[i] \in WriteWords

\* C20: every query run_sql_query accepts is read-only: a text that holds
\* INSERT, UPDATE, DELETE, DROP or TRUNCATE anywhere (inside a WITH clause, for
\* example) is rejected by the validation.
C20_WriteStatementsRejected ==
    (call.tool = "run_sql_query" /\ HasWriteWord(call.sql)) =>
        (result.kind = "error" /\ result.why \in {"only_select", "semicolon"})

(***************************************************************************)
(* Claims about the interactive loop (checked under SpecLoop)              *)
(***************************************************************************)
\* C21: the next line is asked only after the sendAndWait of the previous
\* line has resolved: at most one prompt is in flight, and none while the
\* loop waits for a line.
C21_OnePromptInFlight ==
    /\ loop.inFlight <= 1
    /\ (loop.pc = "question") => (loop.inFlight = 0)
    /\ (loop.inFlight = 1) => (loop.pc = "sending")

\* C21 witness: a second line was sent after the first prompt had resolved.
C21_Witness ==
    /\ Len(loop.prompts) = 2
    /\ loop.pc = "sending"
    /\ loop.inFlight = 1

\* The last line entered is the word exit in some letter case.
EnteredExit ==
    /\ loop.lines # <<>>
    /\ Len(loop.lines[Len(loop.lines)]) = Len(w_exit)
    /\ StartsWithIgnoreCase(loop.lines[Len(loop.lines)], w_exit)

\* C22: once the user has entered exit, in any letter case, client.stop() has
\* been called; readline is closed only after stop has completed; and from
\* then on no prompt is sent and no line is asked.
C22_ExitStopsThenCloses ==
    /\ [](EnteredExit => (loop.stopCalled /\ loop.pc \in {"stopping", "closed"}))
    /\ [](loop.rlClosed => loop.stopped)
    /\ [][EnteredExit => (/\ loop'.prompts = loop.prompts
                          /\ loop'.lines = loop.lines
                          /\ loop'.inFlight = loop.inFlight
                          /\ loop'.pc # "question")]_vars

\* C22 witness: EXIT in capitals was entered after a prompt, the client has
\* stopped and readline is closed.
C22_Witness ==
    /\ Len(loop.lines) = 2
    /\ loop.lines[2] = <<"E", "X", "I", "T">>
    /\ Len(loop.prompts) = 1
    /\ loop.stopped
    /\ loop.rlClosed

\* C23: after every line other than exit the loop eventually asks for the
\* next line, also when sendAndWait fails (checked under SpecLoopLive).
C23_AsksAgainAfterEverySend ==
    (loop.pc = "sending") ~> (loop.pc = "question")

(***************************************************************************)
(* Claims about ticket ids (checked under SpecTickets)                     *)
(***************************************************************************)
\* C24: distinct invocations of create_ticket return distinct ticket_id
\* values, also within one clock millisecond.
C24_TicketIdsDistinct ==
    \A i, j \in 1..Len(support.returned) :
        i # j => support.returned[i].result.ticket_id # support.returned[j].result.ticket_id

w_tail == <<"-", "-", "t", "a", "i", "l", "=">>

\* The text up to the first space (the end of a shell word).
RECURSIVE ShellWord(_)
ShellWord(s) == IF s = <<>> \/ Head(s) = " " THEN <<>> ELSE <<Head(s)>> \o ShellWord(Tail(s))

\* The value of --tail in a started kubectl: what follows "--tail=" in the
\* argument (execFile) or in the command line up to the next space (shell).
TailHandedToKubectl(p) ==
    IF p.via = "execFile"
    THEN LET i == CHOOSE k \in 1..Len(p.args) : StartsWith(p.args[k], w_tail)
         IN  SubSeq(p.args[i], Len(w_tail) + 1, Len(p.args[i]))
    ELSE LET i == CHOOSE k \in 1..Len(p.cmdline) :
                      SubSeq(p.cmdline, k, k + Len(w_tail) - 1) = w_tail
         IN  ShellWord(SubSeq(p.cmdline, i + Len(w_tail), Len(p.cmdline)))

IsIntegerIn(text, lo, hi) ==
    /\ text # <<>>
    /\ \A i \in 1..Len(text) : IsDigit(text[i])
    /\ ParseDigits(text) \in lo..hi

\* C25: whatever `lines` a fetch_logs call carries, the --tail value of the
\* kubectl it starts is an integer between 1 and 1000.
C25_TailBetween1And1000 ==
    (call.tool = "fetch_logs" /\ proc # NoProc)
        => IsIntegerIn(TailHandedToKubectl(proc), 1, 1000)

\* C25 for the listing only (the copy that computes safeLines).
C25_ListingTailBetween1And1000 ==
    (call.tool = "fetch_logs" /\ call.copy = "listing" /\ proc # NoProc)
        => IsIntegerIn(TailHandedToKubectl(proc), 1, 1000)

\* The data rows of a CSV file: its non-empty lines after the header line.
RECURSIVE CountLines(_, _)
CountLines(content, inLine) ==
    IF content = <<>> THEN (IF inLine THEN 1 ELSE 0)
    ELSE IF Head(content) = "\n"
    THEN (IF inLine THEN 1 ELSE 0) + CountLines(Tail(content), FALSE)
    ELSE CountLines(Tail(content), TRUE)

DataRows(content) ==
    LET n == CountLines(content, FALSE) IN IF n = 0 THEN 0 ELSE n - 1

\* C26: a successful load_csv reports a non-negative total_rows equal to the
\* number of data rows of the file, and a preview of at most max(rows, 0)
\* entries and at most total_rows entries.
C26_PreviewAndTotalRows ==
    (call.tool = "load_csv" /\ result.kind = "ok") =>
        LET content == CHOOSE c \in call.file : TRUE
            rows == OrDefault(call.rows, 50)
        IN  /\ result.total_rows >= 0
            /\ result.total_rows = DataRows(content)
            /\ Len(result.preview) <= (IF rows > 0 THEN rows ELSE 0)
            /\ Len(result.preview) <= result.total_rows

\* C26 for files with a header line and a non-negative rows.
C26_WithHeaderAndNonNegativeRows ==
    (call.tool = "load_csv" /\ result.kind = "ok"
        /\ CountLines(CHOOSE c \in call.file : TRUE, FALSE) > 0
        /\ OrDefault(call.rows, 50) >= 0) =>
        LET content == CHOOSE c \in call.file : TRUE
            rows == OrDefault(call.rows, 50)
        IN  /\ result.total_rows = DataRows(content)
            /\ Len(result.preview) <= rows
            /\ Len(result.preview) <= result.total_rows

IsSelectionStepOn(sid) ==
    /\ reply'.method \in {"session.agent.select", "session.agent.deselect"}
    /\ reply'.sessionId = sid

\* C28: agent selection is per session: a select or a deselect on one session
\* leaves what getCurrent returns on every other session unchanged.
C28_SelectionIsPerSession ==
    [][\A sid \in 1..Len(sessions) :
          IsSelectionStepOn(sid) =>
              \A other \in (1..Len(sessions)) \ {sid} :
                  HandleGetCurrent(sessions'[other]) = HandleGetCurrent(sessions[other])]_vars

\* C28 witness: a select was answered on one session while the other session,
\* configured with the same agent, has another agent or none selected.
C28_Witness ==
    /\ Len(sessions) = 2
    /\ reply.method = "session.agent.select"
    /\ \E other \in (1..2) \ {reply.sessionId} :
          /\ reply.request.name \in AgentNames(sessions[other].customAgents)
          /\ HandleGetCurrent(sessions[other]) # HandleGetCurrent(sessions[reply.sessionId])

ReportsCritical(parts) ==
    \E i \in 1..Len(parts) :
        /\ parts[i].t = "json"
        /\ \E f \in parts[i].v.findings :
              \E k \in 1..Len(f) : f[k].severity = {"critical"}

\* C30: the security gate exits with a non-zero status whenever the review
\* output reports a critical finding, and with 0 only when it reports none.
C30_GateFailsOnCritical ==
    (call.tool = "run_security_gate" /\ call.pc = "exited") =>
        (ReportsCritical(call.result_parts) => result.status # 0)

\* C30 for outputs that are one JSON object and nothing else: the status is
\* non-zero exactly when a finding is critical.
C30_GateFailsOnCriticalInPlainJson ==
    (call.tool = "run_security_gate" /\ call.pc = "exited" /\ call.stopped
        /\ Len(call.result_parts) = 1 /\ call.result_parts[1].t = "json"
        /\ call.result_parts[1].v.shape = "object") =>
        (result.status # 0 <=> ReportsCritical(call.result_parts))

====
